---- MODULE Spec2Model ----
(***************************************************************************)
(* Risk Score Calculation Engine (backend/app/services/risk_engine.py).    *)
(*                                                                         *)
(* Python floats are modelled as exact rationals <<n, d>> with d > 0 in    *)
(* lowest terms.  A dict entry is a record [k, v]: k = "missing" when the  *)
(* key is absent, "null" when it maps to None, "val" when it holds v.      *)
(* Datetimes are whole days; datetime.utcnow() is the variable now.        *)
(***************************************************************************)
EXTENDS Integers, Sequences, FiniteSets, TLC

(* ------------------------------ bounds -------------------------------- *)

\* Longest list of arbitrary (possibly malformed) samples drawn as input.
MaxSamples == 3
\* Longest list of arbitrary flight records drawn as input.
MaxFlights == 2
\* Number of clock advances (of TickDays each) the clock may make.
MaxTicks == 1
\* Load levels 1..MaxLevel from which 7-point series are drawn.
MaxLevel == 8

(* ---------------------------- rationals ------------------------------- *)

Abs(x) == IF x < 0 THEN -x ELSE x

RECURSIVE GCD(_, _)
GCD(a, b) == IF b = 0 THEN a ELSE GCD(b, a % b)

Rat(n, d) ==
    LET s == IF d < 0 THEN -1 ELSE 1
        g == GCD(Abs(n), Abs(d))
    IN  <<(s * n) \div g, (s * d) \div g>>

R(i) == <<i, 1>>
RAdd(a, b) == Rat(a[1] * b[2] + b[1] * a[2], a[2] * b[2])
RSub(a, b) == Rat(a[1] * b[2] - b[1] * a[2], a[2] * b[2])
RMul(a, b) == Rat(a[1] * b[1], a[2] * b[2])
RDiv(a, b) == Rat(a[1] * b[2], a[2] * b[1])
RLt(a, b) == a[1] * b[2] < b[1] * a[2]
RLe(a, b) == a[1] * b[2] <= b[1] * a[2]
\* Python's min(a, b) and max(a, b): the first argument wins a tie.
RMin(a, b) == IF RLt(b, a) THEN b ELSE a
RMax(a, b) == IF RLt(a, b) THEN b ELSE a

RECURSIVE RSum(_)
RSum(s) == IF s = <<>> THEN R(0) ELSE RAdd(s[1], RSum(Tail(s)))

(* ------------------------------ dicts --------------------------------- *)

Missing(dflt) == [k |-> "missing", v |-> dflt]
Null(dflt) == [k |-> "null", v |-> dflt]
Val(x) == [k |-> "val", v |-> x]

\* "key" in d
Has(f) == f.k # "missing"
\* d[key] is not None   (for a key that is present)
NotNone(f) == f.k = "val"

RECURSIVE Reverse(_)
Reverse(s) == IF s = <<>> THEN <<>> ELSE Append(Reverse(Tail(s)), s[1])

(* ---------------------------- constants ------------------------------- *)

WEIGHT_WASTEWATER == Rat(40, 100)
WEIGHT_VELOCITY == Rat(30, 100)
WEIGHT_IMPORT == Rat(30, 100)
WASTEWATER_MAX == 1000000000
VELOCITY_MAX == Rat(5, 10)
TREND_RISING_THRESHOLD == Rat(5, 100)
TREND_FALLING_THRESHOLD == Rat(-5, 100)
MIN_DATA_POINTS == 3
MAX_DATA_AGE_DAYS == 14
\* datetime.min, the sort key of a record without "timestamp"
DatetimeMin == -1000000


(* ------------------------- sorting by timestamp ----------------------- *)

\* key=lambda x: x.get("timestamp", datetime.min)
TimestampKey(x) == IF Has(x.timestamp) THEN x.timestamp.v ELSE DatetimeMin

\* sorted() and max() compare the keys of every element of a list of two or
\* more; a key that is None (a "timestamp" holding None) raises TypeError.
TimestampOrderRaises(data) ==
    /\ Len(data) >= 2
    /\ \E i \in 1..Len(data) : data[i].timestamp.k = "null"

RECURSIVE InsertByTimestamp(_, _)
InsertByTimestamp(s, x) ==
    IF s = <<>> THEN <<x>>
    ELSE IF TimestampKey(x) < TimestampKey(s[Len(s)])
         THEN Append(InsertByTimestamp(SubSeq(s, 1, Len(s) - 1), x), s[Len(s)])
         ELSE Append(s, x)

\* Mutant of SortedByTimestamp: the samples are used in the order they were
\* delivered.
SortedByTimestampAsDelivered(data) == data

\* sorted(data, key=timestamp): ascending and stable.
RECURSIVE SortedByTimestamp(_)
SortedByTimestamp(data) ==
    IF data = <<>> THEN <<>>
    ELSE InsertByTimestamp(SortedByTimestamp(SubSeq(data, 1, Len(data) - 1)),
                           data[Len(data)])

\* sorted(data, key=timestamp, reverse=True): descending, equal keys keep
\* their input order.
SortedByTimestampReverse(data) == Reverse(SortedByTimestamp(Reverse(data)))

\* max(data, key=timestamp): the first element holding the greatest key.
LatestByTimestamp(data) ==
    LET i == CHOOSE j \in 1..Len(data) :
                 /\ \A m \in 1..Len(data) : TimestampKey(data[m]) <= TimestampKey(data[j])
                 /\ \A m \in 1..(j - 1) : TimestampKey(data[m]) < TimestampKey(data[j])
    IN  data[i]

(* --------------------------- load helpers ----------------------------- *)

\* if d[key]: the key holds a value that is neither None nor zero
TruthyNumber(f, zero) == f.k = "val" /\ f.v # zero

GetLoad(data_point) ==
    IF TruthyNumber(data_point.normalized_score, R(0))
    THEN data_point.normalized_score.v
    ELSE IF TruthyNumber(data_point.raw_load, 0)
         THEN Rat(data_point.raw_load.v, WASTEWATER_MAX)
         ELSE R(0)

RECURSIVE Loads(_)
Loads(data) == IF data = <<>> THEN <<>> ELSE <<GetLoad(data[1])>> \o Loads(Tail(data))

RECURSIVE PositiveOnly(_)
PositiveOnly(loads) ==
    IF loads = <<>> THEN <<>>
    ELSE IF RLt(R(0), loads[1]) THEN <<loads[1]>> \o PositiveOnly(Tail(loads))
         ELSE PositiveOnly(Tail(loads))

CalculateAverageLoad(data) ==
    LET valid_loads == PositiveOnly(Loads(data))
    IN  IF valid_loads = <<>> THEN R(0)
        ELSE RDiv(RSum(valid_loads), R(Len(valid_loads)))

(* ------------------------ wastewater component ------------------------ *)

CalculateWastewaterComponent(wastewater_data) ==
    IF wastewater_data = <<>> THEN R(50)
    ELSE LET recent == SortedByTimestampReverse(wastewater_data)[1]
         IN  IF Has(recent.normalized_score) /\ NotNone(recent.normalized_score)
             THEN RMin(R(100), RMax(R(0), RMul(recent.normalized_score.v, R(100))))
             ELSE IF Has(recent.raw_load) /\ NotNone(recent.raw_load)
                  THEN RMul(RMin(R(1), Rat(recent.raw_load.v, WASTEWATER_MAX)), R(100))
                  ELSE R(50)

(* ------------------------- velocity component ------------------------- *)

CalculateVelocityComponent(wastewater_data) ==
    IF Len(wastewater_data) < 2 THEN R(50)
    ELSE
      LET sorted_data == SortedByTimestamp(wastewater_data)
          n == Len(sorted_data)
          velocity ==
            IF n >= 7
            THEN LET recent_week == SubSeq(sorted_data, n - 6, n)
                     prior_week == IF n >= 14
                                   THEN SubSeq(sorted_data, n - 13, n - 7)
                                   ELSE SubSeq(sorted_data, 1, 7)
                     recent_avg == CalculateAverageLoad(recent_week)
                     prior_avg == CalculateAverageLoad(prior_week)
                 IN  IF RLt(R(0), prior_avg)
                     THEN RDiv(RSub(recent_avg, prior_avg), prior_avg)
                     ELSE R(0)
            ELSE LET newest == GetLoad(sorted_data[n])
                     oldest == GetLoad(sorted_data[1])
                 IN  IF RLt(R(0), oldest)
                     THEN RDiv(RSub(newest, oldest), oldest)
                     ELSE R(0)
          clamped == RMax(RSub(R(0), VELOCITY_MAX), RMin(VELOCITY_MAX, velocity))
      IN  RMul(RDiv(RAdd(RDiv(clamped, VELOCITY_MAX), R(1)), R(2)), R(100))

(* -------------------------- import component -------------------------- *)

\* "not flight_data": None or an empty list
NoFlights(flight_data) == flight_data.k # "val" \/ flight_data.v = <<>>
\* "not risk_map": None or an empty dict
NoRiskMap(risk_map) == risk_map.k # "val" \/ DOMAIN risk_map.v = {}

\* risk_map.get(flight.get("origin_id", ""), 50.0)
OriginRiskEntry(flight, risk_map) ==
    IF flight.origin_id.k = "val" /\ flight.origin_id.v \in DOMAIN risk_map.v
    THEN risk_map.v[flight.origin_id.v]
    ELSE Val(R(50))

\* flight.get("passengers", 0)
Passengers(flight) == IF Has(flight.passengers) THEN flight.passengers.v ELSE 0

RECURSIVE RiskWeightedPax(_, _)
RiskWeightedPax(flights, risk_map) ==
    IF flights = <<>> THEN R(0)
    ELSE RAdd(RMul(R(Passengers(flights[1])),
                   RDiv(OriginRiskEntry(flights[1], risk_map).v, R(100))),
              RiskWeightedPax(Tail(flights), risk_map))

RECURSIVE TotalPassengers(_)
TotalPassengers(flights) ==
    IF flights = <<>> THEN 0 ELSE Passengers(flights[1]) + TotalPassengers(Tail(flights))

\* None / 100.0 and None * origin_risk raise TypeError.
ImportRaises(flight_data, risk_map) ==
    /\ ~NoFlights(flight_data)
    /\ ~NoRiskMap(risk_map)
    /\ \E i \in 1..Len(flight_data.v) :
          \/ OriginRiskEntry(flight_data.v[i], risk_map).k = "null"
          \/ flight_data.v[i].passengers.k = "null"

\* Mutant of CalculateImportComponent: absent flight data counts as no
\* import pressure at all (0 instead of the 30.0 baseline).
CalculateImportComponentZeroDefault(flight_data, risk_map) ==
    IF NoFlights(flight_data) \/ NoRiskMap(risk_map) THEN R(0)
    ELSE
      LET total_risk_weighted_pax == RiskWeightedPax(flight_data.v, risk_map)
          total_passengers == TotalPassengers(flight_data.v)
      IN  IF total_passengers = 0 THEN R(0)
          ELSE
            LET avg_import_risk == RDiv(total_risk_weighted_pax, R(total_passengers))
                volume_factor == RMin(R(1), Rat(total_passengers, 10000))
            IN  RMin(R(100), RMax(R(0),
                    RMul(RMul(avg_import_risk, R(100)),
                         RAdd(Rat(1, 2), RMul(Rat(1, 2), volume_factor)))))

\* Mutant of CalculateImportComponent: the pressure is taken from the share
\* of passengers that is not at risk.
CalculateImportComponentSafeShare(flight_data, risk_map) ==
    IF NoFlights(flight_data) \/ NoRiskMap(risk_map) THEN R(30)
    ELSE
      LET total_risk_weighted_pax == RiskWeightedPax(flight_data.v, risk_map)
          total_passengers == TotalPassengers(flight_data.v)
      IN  IF total_passengers = 0 THEN R(30)
          ELSE
            LET avg_import_risk ==
                    RSub(R(1), RDiv(total_risk_weighted_pax, R(total_passengers)))
                volume_factor == RMin(R(1), Rat(total_passengers, 10000))
                import_component ==
                    RMul(RMul(avg_import_risk, R(100)),
                         RAdd(Rat(1, 2), RMul(Rat(1, 2), volume_factor)))
            IN  RMin(R(100), RMax(R(0), import_component))

CalculateImportComponent(flight_data, risk_map) ==
    IF NoFlights(flight_data) \/ NoRiskMap(risk_map) THEN R(30)
    ELSE
      LET total_risk_weighted_pax == RiskWeightedPax(flight_data.v, risk_map)
          total_passengers == TotalPassengers(flight_data.v)
      IN  IF total_passengers = 0 THEN R(30)
          ELSE
            LET avg_import_risk == RDiv(total_risk_weighted_pax, R(total_passengers))
                volume_factor == RMin(R(1), Rat(total_passengers, 10000))
                import_component ==
                    RMul(RMul(avg_import_risk, R(100)),
                         RAdd(Rat(1, 2), RMul(Rat(1, 2), volume_factor)))
            IN  RMin(R(100), RMax(R(0), import_component))

(* ------------------------------- trend -------------------------------- *)

\* sum((i - x_mean) * (loads[i] - y_mean) for i in range(n)); loads is 1-based here
RECURSIVE SlopeNumerator(_, _, _, _)
SlopeNumerator(loads, i, x_mean, y_mean) ==
    IF i > Len(loads) THEN R(0)
    ELSE RAdd(RMul(RSub(R(i - 1), x_mean), RSub(loads[i], y_mean)),
              SlopeNumerator(loads, i + 1, x_mean, y_mean))

\* sum((i - x_mean) ** 2 for i in range(n))
RECURSIVE SlopeDenominator(_, _, _)
SlopeDenominator(n, i, x_mean) ==
    IF i > n THEN R(0)
    ELSE RAdd(RMul(RSub(R(i - 1), x_mean), RSub(R(i - 1), x_mean)),
              SlopeDenominator(n, i + 1, x_mean))

\* Mutant of DetermineTrend: the slope is compared with the thresholds as it
\* is, not divided by the mean load.
DetermineTrendAbsoluteSlope(wastewater_data) ==
    IF Len(wastewater_data) < 3 THEN "stable"
    ELSE
      LET sorted_data == SortedByTimestamp(wastewater_data)
          m == Len(sorted_data)
          loads == Loads(SubSeq(sorted_data, IF m > 7 THEN m - 6 ELSE 1, m))
          n == Len(loads)
          x_mean == Rat(n - 1, 2)
          y_mean == RDiv(RSum(loads), R(n))
          denominator == SlopeDenominator(n, 1, x_mean)
      IN  IF n < 3 \/ denominator = R(0) THEN "stable"
          ELSE
            LET slope == RDiv(SlopeNumerator(loads, 1, x_mean, y_mean), denominator)
            IN  IF RLt(TREND_RISING_THRESHOLD, slope) THEN "rising"
                ELSE IF RLt(slope, TREND_FALLING_THRESHOLD) THEN "falling"
                ELSE "stable"

\* Mutant of DetermineTrend: a relative slope exactly at a threshold already
\* counts as rising or falling.
DetermineTrendInclusive(wastewater_data) ==
    IF Len(wastewater_data) < 3 THEN "stable"
    ELSE
      LET sorted_data == SortedByTimestamp(wastewater_data)
          m == Len(sorted_data)
          loads == Loads(SubSeq(sorted_data, IF m > 7 THEN m - 6 ELSE 1, m))
          n == Len(loads)
          x_mean == Rat(n - 1, 2)
          y_mean == RDiv(RSum(loads), R(n))
          numerator == SlopeNumerator(loads, 1, x_mean, y_mean)
          denominator == SlopeDenominator(n, 1, x_mean)
      IN  IF n < 3 \/ denominator = R(0) THEN "stable"
          ELSE
            LET slope == RDiv(numerator, denominator)
                relative_slope == IF RLt(R(0), y_mean) THEN RDiv(slope, y_mean) ELSE R(0)
            IN  IF RLe(TREND_RISING_THRESHOLD, relative_slope) THEN "rising"
                ELSE IF RLe(relative_slope, TREND_FALLING_THRESHOLD) THEN "falling"
                ELSE "stable"

DetermineTrend(wastewater_data) ==
    IF Len(wastewater_data) < 3 THEN "stable"
    ELSE
      LET sorted_data == SortedByTimestamp(wastewater_data)
          m == Len(sorted_data)
          loads == Loads(SubSeq(sorted_data, IF m > 7 THEN m - 6 ELSE 1, m))
          n == Len(loads)
          x_mean == Rat(n - 1, 2)
          y_mean == RDiv(RSum(loads), R(n))
          numerator == SlopeNumerator(loads, 1, x_mean, y_mean)
          denominator == SlopeDenominator(n, 1, x_mean)
      IN  IF n < 3 \/ denominator = R(0) THEN "stable"
          ELSE
            LET slope == RDiv(numerator, denominator)
                relative_slope == IF RLt(R(0), y_mean) THEN RDiv(slope, y_mean) ELSE R(0)
            IN  IF RLt(TREND_RISING_THRESHOLD, relative_slope) THEN "rising"
                ELSE IF RLt(relative_slope, TREND_FALLING_THRESHOLD) THEN "falling"
                ELSE "stable"

(* ----------------------------- confidence ----------------------------- *)

\* The staleness penalty: the factor applied for the newest sample's age.
\* Mutant of StalenessFactor: a sample counts as stale from the mark on
\* (age 7 and age 14 included) instead of past it.
StalenessFactorInclusive(age_days) ==
    IF age_days >= MAX_DATA_AGE_DAYS THEN Rat(5, 10)
    ELSE IF age_days >= 7 THEN Rat(8, 10)
    ELSE R(1)

\* Mutant of StalenessFactor: the two staleness penalties compound for a
\* sample older than 14 days (two ifs instead of if / elif).
StalenessFactorCompounding(age_days) ==
    IF age_days > MAX_DATA_AGE_DAYS THEN RMul(Rat(5, 10), Rat(8, 10))
    ELSE IF age_days > 7 THEN Rat(8, 10)
    ELSE R(1)

StalenessFactor(age_days) ==
    IF age_days > MAX_DATA_AGE_DAYS THEN Rat(5, 10)
    ELSE IF age_days > 7 THEN Rat(8, 10)
    ELSE R(1)

\* Mutant of CalculateConfidence: the penalties are subtracted instead of
\* multiplied, and the result is returned without the final clamp.
CalculateConfidenceSubtractive(wastewater_data, flight_data, clock) ==
    LET sparse == IF wastewater_data = <<>> THEN Rat(5, 10)
                  ELSE IF Len(wastewater_data) < MIN_DATA_POINTS THEN Rat(7, 10)
                  ELSE R(0)
        age_days == LET latest_ts == LatestByTimestamp(wastewater_data).timestamp
                    IN  IF latest_ts.k = "val" THEN clock - latest_ts.v ELSE 0
        stale == IF wastewater_data = <<>> THEN R(0)
                 ELSE IF age_days > MAX_DATA_AGE_DAYS THEN Rat(5, 10)
                 ELSE IF age_days > 7 THEN Rat(8, 10)
                 ELSE R(0)
        noflight == IF NoFlights(flight_data) THEN Rat(9, 10) ELSE R(0)
    IN  RSub(RSub(RSub(R(1), sparse), stale), noflight)

CalculateConfidence(wastewater_data, flight_data, clock) ==
    LET sparse == IF wastewater_data = <<>> THEN Rat(5, 10)
                  ELSE IF Len(wastewater_data) < MIN_DATA_POINTS THEN Rat(7, 10)
                  ELSE R(1)
        stale == IF wastewater_data = <<>> THEN R(1)
                 ELSE LET latest_ts == LatestByTimestamp(wastewater_data).timestamp
                      IN  IF latest_ts.k = "val"
                          THEN StalenessFactor(clock - latest_ts.v)
                          ELSE R(1)
        noflight == IF NoFlights(flight_data) THEN Rat(9, 10) ELSE R(1)
        confidence == RMul(RMul(sparse, stale), noflight)
    IN  RMax(Rat(1, 10), RMin(R(1), confidence))

(* --------------------------- calculate_risk --------------------------- *)

\* Mutant of CombineComponents: growth is discounted from the score instead
\* of added to it.
CombineComponentsGrowthDiscounted(wastewater_component, velocity_component, import_component) ==
    RAdd(RSub(RMul(WEIGHT_WASTEWATER, wastewater_component),
              RMul(WEIGHT_VELOCITY, velocity_component)),
         RMul(WEIGHT_IMPORT, import_component))

\* The weighted combination of the three components.
CombineComponents(wastewater_component, velocity_component, import_component) ==
    RAdd(RAdd(RMul(WEIGHT_WASTEWATER, wastewater_component),
              RMul(WEIGHT_VELOCITY, velocity_component)),
         RMul(WEIGHT_IMPORT, import_component))

\* A call that ends in an exception instead of returning.
CalculateRiskRaises(wastewater_data, flight_data, risk_map) ==
    \/ TimestampOrderRaises(wastewater_data)
    \/ ImportRaises(flight_data, risk_map)

NoResult ==
    [called |-> FALSE, raised |-> FALSE, location_id |-> "",
     risk_score |-> R(0),
     components |-> [wastewater_load |-> R(0), growth_velocity |-> R(0),
                     import_pressure |-> R(0)],
     confidence |-> R(0), trend |-> "", last_updated |-> 0]

Raised == [NoResult EXCEPT !.called = TRUE, !.raised = TRUE]

\* Mutant of CalculateRisk: the score is weighted by the confidence, which
\* makes it depend on the clock.
CalculateRiskConfidenceWeighted(location_id, wastewater_data, flight_data, risk_map, clock) ==
    IF CalculateRiskRaises(wastewater_data, flight_data, risk_map) THEN Raised
    ELSE
      LET wastewater_component == CalculateWastewaterComponent(wastewater_data)
          velocity_component == CalculateVelocityComponent(wastewater_data)
          import_component == CalculateImportComponent(flight_data, risk_map)
          confidence == CalculateConfidence(wastewater_data, flight_data, clock)
      IN  [called |-> TRUE, raised |-> FALSE, location_id |-> location_id,
           risk_score |-> RMul(confidence,
                               CombineComponents(wastewater_component,
                                                 velocity_component, import_component)),
           components |-> [wastewater_load |-> wastewater_component,
                           growth_velocity |-> velocity_component,
                           import_pressure |-> import_component],
           confidence |-> confidence,
           trend |-> DetermineTrend(wastewater_data),
           last_updated |-> clock]

\* Mutant of CalculateRisk: flights that yield only the default import
\* component (no risk map, or no passengers) count as missing flow data
\* for the confidence.
CalculateRiskFlowPenaltyOnDefault(location_id, wastewater_data, flight_data, risk_map, clock) ==
    IF CalculateRiskRaises(wastewater_data, flight_data, risk_map) THEN Raised
    ELSE
      LET wastewater_component == CalculateWastewaterComponent(wastewater_data)
          velocity_component == CalculateVelocityComponent(wastewater_data)
          import_component == CalculateImportComponent(flight_data, risk_map)
          usable_flights ==
              IF \/ NoFlights(flight_data)
                 \/ NoRiskMap(risk_map)
                 \/ TotalPassengers(flight_data.v) = 0
              THEN Null(<<>>) ELSE flight_data
      IN  [called |-> TRUE, raised |-> FALSE, location_id |-> location_id,
           risk_score |-> CombineComponents(wastewater_component,
                                            velocity_component, import_component),
           components |-> [wastewater_load |-> wastewater_component,
                           growth_velocity |-> velocity_component,
                           import_pressure |-> import_component],
           confidence |-> CalculateConfidence(wastewater_data, usable_flights, clock),
           trend |-> DetermineTrend(wastewater_data),
           last_updated |-> clock]

CalculateRisk(location_id, wastewater_data, flight_data, risk_map, clock) ==
    IF CalculateRiskRaises(wastewater_data, flight_data, risk_map) THEN Raised
    ELSE
      LET wastewater_component == CalculateWastewaterComponent(wastewater_data)
          velocity_component == CalculateVelocityComponent(wastewater_data)
          import_component == CalculateImportComponent(flight_data, risk_map)
      IN  [called |-> TRUE, raised |-> FALSE, location_id |-> location_id,
           risk_score |-> CombineComponents(wastewater_component,
                                            velocity_component, import_component),
           components |-> [wastewater_load |-> wastewater_component,
                           growth_velocity |-> velocity_component,
                           import_pressure |-> import_component],
           confidence |-> CalculateConfidence(wastewater_data, flight_data, clock),
           trend |-> DetermineTrend(wastewater_data),
           last_updated |-> clock]

(* ------------------------------ forecast ------------------------------ *)

\* The key of sorted(historical_data, key=date) for a record without a date:
\* the empty string, which sorts before every date.  Dates are day numbers
\* from 1 on.
EmptyDateKey == 0

DateKey(x) == IF Has(x.date) THEN x.date.v ELSE EmptyDateKey

RECURSIVE InsertByDate(_, _)
InsertByDate(s, x) ==
    IF s = <<>> THEN <<x>>
    ELSE IF DateKey(x) < DateKey(s[Len(s)])
         THEN Append(InsertByDate(SubSeq(s, 1, Len(s) - 1), x), s[Len(s)])
         ELSE Append(s, x)

\* sorted(historical_data, key=date): ascending and stable.
RECURSIVE SortedByDate(_)
SortedByDate(data) ==
    IF data = <<>> THEN <<>>
    ELSE InsertByDate(SortedByDate(SubSeq(data, 1, Len(data) - 1)), data[Len(data)])

\* [d.get("risk_score", 50.0) for d in sorted_data]
RECURSIVE Scores(_)
Scores(data) ==
    IF data = <<>> THEN <<>>
    ELSE <<IF Has(data[1].risk_score) THEN data[1].risk_score.v ELSE R(50)>>
         \o Scores(Tail(data))

\* smoothed[t] = alpha * scores[t] + (1 - alpha) * smoothed[t-1], alpha = 0.3
RECURSIVE Smoothed(_)
Smoothed(scores) ==
    IF Len(scores) = 1 THEN <<scores[1]>>
    ELSE LET before == Smoothed(SubSeq(scores, 1, Len(scores) - 1))
         IN  Append(before,
                    RAdd(RMul(Rat(3, 10), scores[Len(scores)]),
                         RMul(RSub(R(1), Rat(3, 10)), before[Len(before)])))

\* Mutant of RecentTrend: with 8 or more smoothed points the trend is
\* measured against the value seven positions before the last.
RecentTrendSevenBack(smoothed) ==
    IF Len(smoothed) >= 8
    THEN RDiv(RSub(smoothed[Len(smoothed)], smoothed[Len(smoothed) - 7]), R(7))
    ELSE RDiv(RSub(smoothed[Len(smoothed)], smoothed[1]), R(Len(smoothed)))

RecentTrend(smoothed) ==
    IF Len(smoothed) >= 7
    THEN RDiv(RSub(smoothed[Len(smoothed)], smoothed[Len(smoothed) - 6]), R(7))
    ELSE RDiv(RSub(smoothed[Len(smoothed)], smoothed[1]), R(Len(smoothed)))

\* The greatest s in lo..hi-1 with s*s <= m, given lo*lo <= m < hi*hi.
RECURSIVE ISqrtBetween(_, _, _)
ISqrtBetween(m, lo, hi) ==
    IF hi - lo <= 1 THEN lo
    ELSE LET mid == (lo + hi) \div 2
         IN  IF mid * mid <= m THEN ISqrtBetween(m, mid, hi)
             ELSE ISqrtBetween(m, lo, mid)

\* floor(sqrt(m))
ISqrt(m) == ISqrtBetween(m, 0, IF m < 46340 THEN m + 1 ELSE 46340)

\* round(x, 1): the nearest tenth.  When x is exactly half-way between two
\* tenths, the float the code holds for x lies on either side of the half
\* (or on it, and is rounded to the even tenth): either tenth may come out.
RoundTenth(x) ==
    LET num == 10 * x[1]
        q == num \div x[2]
        r == num - q * x[2]
    IN  IF 2 * r < x[2] THEN { Rat(q, 10) }
        ELSE IF 2 * r > x[2] THEN { Rat(q + 1, 10) }
        ELSE { Rat(q, 10), Rat(q + 1, 10) }

\* y < base_confidence * math.sqrt(i)
BelowMargin(y, base_confidence, i) ==
    \/ y[1] < 0
    \/ y[1] * y[1] < base_confidence * base_confidence * i * y[2] * y[2]

\* round(x + sign * base_confidence * math.sqrt(i), 1), for sign 1 or -1
RoundWithMargin(x, sign, base_confidence, i) ==
    LET m == 100 * base_confidence * base_confidence * i
        root == ISqrt(m)
    IN  IF root * root = m THEN RoundTenth(RAdd(x, Rat(sign * root, 10)))
        ELSE LET t == RAdd(RMul(R(10), x), Rat(1, 2))
                 w == t[1] \div t[2]
                 f == t[1] - w * t[2]
                 n == IF sign = 1
                      THEN w + root +
                           (IF m * t[2] * t[2] >= ((root + 1) * t[2] - f) * ((root + 1) * t[2] - f)
                            THEN 1 ELSE 0)
                      ELSE w - root -
                           (IF m * t[2] * t[2] > (root * t[2] + f) * (root * t[2] + f)
                            THEN 1 ELSE 0)
             IN  { Rat(n, 10) }

\* round(max(0, score - confidence_margin), 1)
ConfidenceLow(score, base_confidence, i) ==
    IF BelowMargin(score, base_confidence, i) THEN { R(0) }
    ELSE RoundWithMargin(score, -1, base_confidence, i)

\* Mutant of ConfidenceHigh: the upper end of the band is not held at 100.
ConfidenceHighUnbounded(score, base_confidence, i) ==
    RoundWithMargin(score, 1, base_confidence, i)

\* round(min(100, score + confidence_margin), 1)
ConfidenceHigh(score, base_confidence, i) ==
    IF BelowMargin(RSub(R(100), score), base_confidence, i) THEN { R(100) }
    ELSE RoundWithMargin(score, 1, base_confidence, i)

\* The dicts that may be appended for step i: one for each way the three
\* roundings may come out.
ForecastPoints(date, score, base_confidence, i) ==
    { [date |-> date, risk_score |-> r, confidence_low |-> lo, confidence_high |-> hi] :
        r \in RoundTenth(score),
        lo \in ConfidenceLow(score, base_confidence, i),
        hi \in ConfidenceHigh(score, base_confidence, i) }

\* The lists that take their i-th element from the i-th set.
RECURSIVE ListsOver(_)
ListsOver(sets) ==
    IF sets = <<>> THEN { <<>> }
    ELSE { Append(front, last) :
             front \in ListsOver(SubSeq(sets, 1, Len(sets) - 1)),
             last \in sets[Len(sets)] }

\* _generate_flat_forecast(last_score, days), with today read from the clock
GenerateFlatForecast(last_score, horizon, clock) ==
    ListsOver([i \in 1..horizon |-> ForecastPoints(clock + i, last_score, 10, i)])

\* A call that ends in an exception: None compared with a date string by
\* the sort, round(None, 1), arithmetic on a None score, or the missing
\* "date" key of the last record.
ForecastRaises(history, horizon) ==
    /\ history # <<>>
    /\ \/ Len(history) >= 2 /\ \E j \in 1..Len(history) : history[j].date.k = "null"
       \/ /\ Len(history) < 3
          /\ horizon >= 1
          /\ SortedByDate(history)[Len(history)].risk_score.k = "null"
       \/ /\ Len(history) >= 3
          /\ \/ \E j \in 1..Len(history) : history[j].risk_score.k = "null"
             \/ ~Has(SortedByDate(history)[Len(history)].date)

ForecastRaised == [called |-> TRUE, raised |-> TRUE, points |-> <<>>]

Forecast(points) == [called |-> TRUE, raised |-> FALSE, points |-> points]

\* What calculate_forecast(history, horizon) may return or raise at the
\* given reading of the clock.
CalculateForecast(history, horizon, clock) ==
    IF history = <<>> THEN { Forecast(<<>>) }
    ELSE IF ForecastRaises(history, horizon) THEN { ForecastRaised }
    ELSE
      LET sorted_data == SortedByDate(history)
          scores == Scores(sorted_data)
      IN  IF Len(scores) < 3
          THEN { Forecast(points) :
                   points \in GenerateFlatForecast(scores[Len(scores)], horizon, clock) }
          ELSE
            LET smoothed == Smoothed(scores)
                recent_trend == RecentTrend(smoothed)
                last_date == sorted_data[Len(sorted_data)].date.v
                last_score == smoothed[Len(smoothed)]
                forecast_score(i) ==
                    RMax(R(0), RMin(R(100), RAdd(last_score, RMul(recent_trend, R(i)))))
            IN  { Forecast(points) :
                    points \in ListsOver([i \in 1..horizon |->
                                  ForecastPoints(last_date + i, forecast_score(i), 5, i)]) }

(* ------------------------- regional aggregation ----------------------- *)

\* weights.get(r.location_id, 1.0)
WeightOf(weights, r) ==
    IF r.location_id \in DOMAIN weights THEN weights[r.location_id] ELSE R(1)

\* sum(weights.get(r.location_id, 1.0) for r in location_risks)
RECURSIVE TotalWeight(_, _)
TotalWeight(location_risks, weights) ==
    IF location_risks = <<>> THEN R(0)
    ELSE RAdd(TotalWeight(SubSeq(location_risks, 1, Len(location_risks) - 1), weights),
              WeightOf(weights, location_risks[Len(location_risks)]))

\* sum(r.risk_score * weights.get(r.location_id, 1.0) for r in location_risks)
RECURSIVE WeightedSum(_, _)
WeightedSum(location_risks, weights) ==
    IF location_risks = <<>> THEN R(0)
    ELSE RAdd(WeightedSum(SubSeq(location_risks, 1, Len(location_risks) - 1), weights),
              RMul(location_risks[Len(location_risks)].risk_score,
                   WeightOf(weights, location_risks[Len(location_risks)])))

\* sum(r.risk_score for r in location_risks)
RECURSIVE ScoreSum(_)
ScoreSum(location_risks) ==
    IF location_risks = <<>> THEN R(0)
    ELSE RAdd(ScoreSum(SubSeq(location_risks, 1, Len(location_risks) - 1)),
              location_risks[Len(location_risks)].risk_score)

\* `if weights:` - a dict is given and it is not empty.
WeightsGiven(weights) == NotNone(weights) /\ DOMAIN weights.v # {}

\* Mutant of AggregateRegionalRisk: a location absent from the weights is
\* left out of the weighted mean instead of counting with weight 1.0.
AggregateRegionalRiskListedOnly(location_risks, weights) ==
    IF location_risks = <<>> THEN R(50)
    ELSE IF WeightsGiven(weights)
    THEN LET listed == SelectSeq(location_risks,
                                 LAMBDA r : r.location_id \in DOMAIN weights.v)
             total_weight == TotalWeight(listed, weights.v)
         IN  IF RLt(R(0), total_weight)
             THEN RDiv(WeightedSum(listed, weights.v), total_weight)
             ELSE R(50)
    ELSE RDiv(ScoreSum(location_risks), R(Len(location_risks)))

\* aggregate_regional_risk(location_risks, weights)
AggregateRegionalRisk(location_risks, weights) ==
    IF location_risks = <<>> THEN R(50)
    ELSE IF WeightsGiven(weights)
    THEN LET total_weight == TotalWeight(location_risks, weights.v)
             weighted_sum == WeightedSum(location_risks, weights.v)
         IN  IF RLt(R(0), total_weight) THEN RDiv(weighted_sum, total_weight)
             ELSE R(50)
    ELSE RDiv(ScoreSum(location_risks), R(Len(location_risks)))

(* ------------------------------ inputs -------------------------------- *)

\* Days the clock advances in one step: a week, so that a sample crosses
\* the 7-day and 14-day staleness marks.
TickDays == 7

\* Longest history of arbitrary points handed to calculate_forecast.
MaxHistory == 3
\* Longest horizon asked for such a history.
MaxDays == 3
\* The horizon asked for the long histories: past the step at which the
\* margin 5*sqrt(i) reaches 50.
LongHorizon == 101

Sample(ts, ns, rl) == [timestamp |-> ts, normalized_score |-> ns, raw_load |-> rl]

NoScore == Missing(R(0))
NoLoad == Missing(0)

\* Samples as the feeds deliver them: well-formed, out of range, negative,
\* and with keys absent or None.  The loads are binary fractions, so that
\* the float arithmetic of the code is exact on them and no trend threshold
\* is decided by a rounding error.
SampleSet ==
    { Sample(Val(0), Val(Rat(1, 4)), NoLoad),
      Sample(Val(-1), Val(R(2)), Val(2000000000)),
      Sample(Val(-8), NoScore, Val(500000000)),
      Sample(Val(0), Null(R(0)), Val(-1000000000)),
      Sample(Missing(0), Val(Rat(-1, 2)), NoLoad),
      Sample(Null(0), NoScore, NoLoad) }

SeqsUpTo(S, n) == UNION { [1..m -> S] : m \in 0..n }

SampleLists == SeqsUpTo(SampleSet, MaxSamples)

\* The sequence of the elements of a set of integers in increasing order.
RECURSIVE Ascending(_)
Ascending(S) ==
    IF S = {} THEN <<>>
    ELSE LET lo == CHOOSE x \in S : \A y \in S : x <= y
         IN  <<lo>> \o Ascending(S \ {lo})

\* Seven samples on seven consecutive days ending today, newest first when
\* newest_first (as the unit tests build them), with the given load levels
\* in chronological order; a load is (base + level) / 1000.
Series(levels, base, newest_first) ==
    LET chrono == [i \in 1..7 |->
                     Sample(Val(i - 7), Val(Rat(base + levels[i], 1000)), NoLoad)]
    IN  IF newest_first THEN Reverse(chrono) ELSE chrono

SeriesLevels ==
    LET inc == { Ascending(S) : S \in { T \in SUBSET (1..MaxLevel) : Cardinality(T) = 7 } }
    IN  inc \cup { Reverse(l) : l \in inc } \cup { [i \in 1..7 |-> c] : c \in 1..MaxLevel }

SeriesLists ==
    { Series(l, b, nf) : l \in SeriesLevels, b \in {0, 500}, nf \in BOOLEAN }

\* Samples on four different days: with normalized_score 0 next to a
\* raw_load, with no load at all, and with a plain score.
ScalarCaseSet ==
    { Sample(Val(0), Val(R(0)), Val(500000000)),
      Sample(Val(-1), Val(Rat(1, 4)), NoLoad),
      Sample(Val(-2), NoScore, NoLoad),
      Sample(Val(-3), Val(Rat(1, 2)), NoLoad) }

\* Lists of two and more of them.
ScalarCaseLists == { l \in SeqsUpTo(ScalarCaseSet, MaxSamples) : Len(l) >= 2 }

\* Three samples on the three days up to today, with loads in sixteenths.
ThreeLoads(y0, y1, y2) ==
    <<Sample(Val(-2), Val(Rat(y0, 16)), NoLoad), Sample(Val(-1), Val(Rat(y1, 16)), NoLoad),
      Sample(Val(0), Val(Rat(y2, 16)), NoLoad)>>

\* Lists at and next to the trend thresholds: relative slope 0.05 and
\* -0.05 exactly (30 * (y2 - y0) = y0 + y1 + y2), and just beyond them.
ThresholdLists ==
    { ThreeLoads(7, 15, 8), ThreeLoads(8, 15, 7), ThreeLoads(7, 14, 8), ThreeLoads(8, 14, 7) }

\* n >= 14 samples on consecutive days ending today: the last week at load
\* second/8, the week before it at first/8, any earlier day at load 1; the
\* last sample may lack its load.
Fortnight(n, first, second, last_has_load) ==
    [i \in 1..n |->
        Sample(Val(i - n),
               IF i = n /\ ~last_has_load THEN NoScore
               ELSE Val(Rat(IF i <= n - 14 THEN 8 ELSE IF i <= n - 7 THEN first ELSE second,
                            8)),
               NoLoad)]

FortnightLists ==
    { Fortnight(n, a, b, h) : n \in {14, 15}, a \in 1..3, b \in 1..3, h \in BOOLEAN }

Flight(origin, pax) == [origin_id |-> origin, passengers |-> pax]

FlightSet ==
    { Flight(Val("X"), Val(1000)),
      Flight(Val("X"), Val(10000)),
      Flight(Val("Y"), Val(0)),
      Flight(Val("Y"), Val(-1000)),
      Flight(Missing(""), Missing(0)),
      Flight(Null(""), Null(0)) }

\* flight_data: None, or a list of flight records
FlightInputs == { Null(<<>>) } \cup { Val(f) : f \in SeqsUpTo(FlightSet, MaxFlights) }

Dict(keys, value(_)) == Val([o \in keys |-> value(o)])

\* risk_map: None, an empty dict, or origin risks (in, above and below the
\* 0-100 range, or None)
RiskMapInputs ==
    { Null(<<>>),
      Val(<<>>),
      Val([o \in {"X"} |-> Val(R(90))]),
      Val([o \in {"X"} |-> Val(R(10))]),
      Val([o \in {"X", "Y"} |-> IF o = "X" THEN Val(R(150)) ELSE Val(R(-20))]),
      Val([o \in {"Y"} |-> Null(R(0))]) }

HistoryPoint(date, score) == [date |-> date, risk_score |-> score]

\* Persisted scores as a caller may hand them over: in and out of the 0-100
\* range, and with keys absent or None.
HistoryPointSet ==
    { HistoryPoint(Val(1), Val(R(50))),
      HistoryPoint(Val(2), Val(R(80))),
      HistoryPoint(Val(3), Val(R(150))),
      HistoryPoint(Val(2), Val(R(-20))),
      HistoryPoint(Missing(0), Missing(R(0))),
      HistoryPoint(Null(0), Null(R(0))) }

Histories == SeqsUpTo(HistoryPointSet, MaxHistory)

\* n daily scores, all at base except the last.
LongHistory(n, base, last) ==
    [j \in 1..n |-> HistoryPoint(Val(j), Val(R(IF j = n THEN last ELSE base)))]

\* Histories of 7 and 8 points: constant (at 50.0, and outside the range),
\* and with a last score that leaves the level.
LongHistories ==
    { LongHistory(n, level[1], level[2]) :
        n \in {7, 8},
        level \in { <<50, 50>>, <<150, 150>>, <<-20, -20>>,
                    <<50, 80>>, <<50, 150>>, <<50, -20>> } }

\* n daily scores that rise from 20: each lies 10 above the smoothed value
\* before it, so that the smoothed series rises by 3 a day (20, 23, 26, ..).
RisingHistory(n) ==
    [j \in 1..n |-> HistoryPoint(Val(j), Val(R(IF j = 1 THEN 20 ELSE 27 + 3 * (j - 1))))]

\* Three daily scores.
ThreeDays(a, b, c) ==
    <<HistoryPoint(Val(1), Val(R(a))), HistoryPoint(Val(2), Val(R(b))),
      HistoryPoint(Val(3), Val(R(c)))>>

\* Histories whose scores strictly increase with the date, within 0-100:
\* of 3, 7 and 8 points.
RisingHistories ==
    { RisingHistory(n) : n \in {3, 7, 8} }
        \cup { ThreeDays(50, 80, 90), ThreeDays(10, 20, 90), ThreeDays(97, 98, 99) }

\* The most locations aggregated into one region.
MaxLocations == 2

\* RiskCalculation(location_id, risk_score, RiskComponents(50, 50, 50), 0.9,
\* "stable", datetime.utcnow())
RiskCalculationOf(location_id, risk_score) ==
    [called |-> TRUE, raised |-> FALSE, location_id |-> location_id,
     risk_score |-> risk_score,
     components |-> [wastewater_load |-> R(50), growth_velocity |-> R(50),
                     import_pressure |-> R(50)],
     confidence |-> Rat(9, 10), trend |-> "stable", last_updated |-> 0]

RegionLocations == {"loc_1", "loc_2", "loc_3"}

RegionScores == {R(0), R(40), R(60), R(100)}

\* The lists of location results a region is made of.
LocationRiskLists ==
    SeqsUpTo({ RiskCalculationOf(l, x) : l \in RegionLocations, x \in RegionScores },
             MaxLocations)

\* A dict of location_id -> weight with the given keys and values.
WeightsDict(w1, w2) ==
    Val([l \in {"loc_1", "loc_2"} |-> IF l = "loc_1" THEN w1 ELSE w2])

\* weights: None, empty, for some or all of the locations, and with weights
\* that are zero or negative.
WeightInputs ==
    { Null(<<>>), Val(<<>>),
      WeightsDict(R(3), R(1)), WeightsDict(R(0), R(0)), WeightsDict(R(-1), R(1)),
      WeightsDict(R(-2), R(1)), WeightsDict(Rat(1, 2), Rat(1, 4)),
      Val([l \in {"loc_1"} |-> R(3)]), Val([l \in {"loc_3"} |-> R(0)]) }

(* ------------------------------- state -------------------------------- *)

VARIABLES
    now,              \* datetime.utcnow(), in days
    risk_map,         \* the map of prior-epoch origin risks the callers pass, or None
    wastewater_data,  \* one caller: its sample list
    flight_data,      \* one caller: its flight list, or None
    result,           \* one caller: what the latest calculate_risk call returned
    previous,         \* one caller: what the call before it returned
    loc_samples,      \* concurrent callers: each location's sample list
    loc_flights,      \* concurrent callers: each location's inbound flight list
    pc,               \* concurrent callers: the statement each call is at
    frame,            \* concurrent callers: each call's local variables
    results,          \* concurrent callers: what each call returned
    epoch_inputs,     \* the inputs as they were handed over at the start of the epoch
    change,           \* how the feeds changed the inputs since the call before the latest
    engine,           \* the engine object: whether it is constructed, and its weights
    historical_data,  \* the history handed to calculate_forecast
    days,             \* the horizon handed to calculate_forecast
    forecast,         \* what the latest calculate_forecast call returned
    location_risks,   \* the location results handed to aggregate_regional_risk
    region_weights,   \* the weights handed to aggregate_regional_risk, or None
    regional          \* what the latest aggregate_regional_risk call returned

seqvars == <<wastewater_data, flight_data, result, previous>>
concvars == <<loc_samples, loc_flights, pc, frame, results, epoch_inputs>>
fcvars == <<historical_data, days, forecast>>
aggvars == <<location_risks, region_weights, regional>>
auxvars == <<change, engine, fcvars, aggvars>>
vars == <<now, risk_map, seqvars, concvars, auxvars>>

\* The locations computed concurrently in one epoch; each is also an origin.
Locs == {"A", "B"}

NoFrame ==
    [wastewater_component |-> R(0), velocity_component |-> R(0),
     import_component |-> R(0), risk_score |-> R(0), trend |-> "",
     confidence |-> R(0)]

\* The concurrent callers are not running.
ConcIdle ==
    /\ loc_samples = [l \in Locs |-> <<>>]
    /\ loc_flights = [l \in Locs |-> Null(<<>>)]
    /\ pc = [l \in Locs |-> "done"]
    /\ frame = [l \in Locs |-> NoFrame]
    /\ results = [l \in Locs |-> NoResult]
    /\ epoch_inputs = [risk_map |-> risk_map, samples |-> loc_samples,
                       flights |-> loc_flights]

\* The inputs are those of the call before the latest.
NoChange == [kind |-> "none", pending |-> FALSE]

\* calculate_forecast has not been called.
NoForecast == [called |-> FALSE, raised |-> FALSE, points |-> <<>>]

ForecastIdle ==
    /\ historical_data = <<>>
    /\ days = 0
    /\ forecast = NoForecast

\* aggregate_regional_risk has not been called.
NoRegional == [called |-> FALSE, value |-> R(0)]

RegionIdle ==
    /\ location_risks = <<>>
    /\ region_weights = Null(<<>>)
    /\ regional = NoRegional

\* The weights an engine reads through self: those of the class.
ClassWeights ==
    [wastewater |-> WEIGHT_WASTEWATER, velocity |-> WEIGHT_VELOCITY,
     import |-> WEIGHT_IMPORT]

\* RiskEngine(): an engine of the class as it is written.
ClassEngine == [constructed |-> TRUE, weights |-> ClassWeights]

Init ==
    /\ now = 0
    /\ result = NoResult
    /\ previous = NoResult
    /\ \/ /\ wastewater_data \in SampleLists
          /\ \E travel \in
                { <<Null(<<>>), Null(<<>>)>>,
                  <<Val(<<>>), Val(<<>>)>>,
                  <<Val(<<Flight(Val("X"), Val(1000))>>), Val([o \in {"X"} |-> Val(R(90))])>> } :
                /\ flight_data = travel[1]
                /\ risk_map = travel[2]
       \/ /\ wastewater_data = <<>>
          /\ flight_data \in FlightInputs
          /\ risk_map \in RiskMapInputs
       \/ /\ wastewater_data \in SeriesLists \cup ScalarCaseLists \cup FortnightLists
                                   \cup ThresholdLists
          /\ flight_data = Null(<<>>)
          /\ risk_map = Null(<<>>)
    /\ ConcIdle
    /\ change = NoChange
    /\ engine = ClassEngine
    /\ ForecastIdle
    /\ RegionIdle

\* engine.calculate_risk("loc_test", wastewater_data, flight_data, risk_map)
CalculateRiskCall ==
    /\ result' = CalculateRisk("loc_test", wastewater_data, flight_data, risk_map, now)
    /\ previous' = result
    /\ change' = [change EXCEPT !.pending = FALSE]
    /\ UNCHANGED <<now, wastewater_data, flight_data, risk_map, concvars, engine, fcvars, aggvars>>

\* Time passes.
Tick ==
    /\ now < MaxTicks * TickDays
    /\ now' = now + TickDays
    /\ UNCHANGED <<risk_map, seqvars, concvars, auxvars>>

Next == CalculateRiskCall \/ Tick

Spec == Init /\ [][Next]_vars

(* ----------------- concurrent callers within one epoch ---------------- *)

\* Sample lists of the concurrently computed locations.
ConcSampleLists ==
    { <<>>,
      <<Sample(Val(0), Val(Rat(1, 4)), NoLoad)>>,
      <<Sample(Val(-1), Val(Rat(4, 10)), NoLoad),
        Sample(Val(-8), NoScore, Val(500000000)),
        Sample(Val(0), Val(Rat(8, 10)), NoLoad)>>,
      <<Sample(Null(0), NoScore, NoLoad), Sample(Val(0), Val(Rat(1, 4)), NoLoad)>> }

\* Flights inbound to l: none, or from the other location of the epoch (an
\* origin whose own score is being computed), or from it and from X.
ConcFlightInputs(l) ==
    LET other == CHOOSE o \in Locs : o # l
    IN  { Null(<<>>),
          Val(<<Flight(Val(other), Val(1000))>>),
          Val(<<Flight(Val(other), Val(1000)), Flight(Val("X"), Val(10000))>>) }

\* The prior epoch's scores of the locations, and of X.
ConcRiskMaps ==
    { Val([o \in Locs \cup {"X"} |->
             IF o = "A" THEN Val(R(20)) ELSE IF o = "B" THEN Val(R(80)) ELSE Val(R(90))]),
      Val([o \in {"A"} |-> Val(R(60))]),
      Val([o \in Locs |-> IF o = "A" THEN Null(R(0)) ELSE Val(R(80))]) }

InitConc ==
    /\ now = 0
    /\ wastewater_data = <<>>
    /\ flight_data = Null(<<>>)
    /\ result = NoResult
    /\ previous = NoResult
    /\ risk_map \in ConcRiskMaps
    /\ loc_samples \in [Locs -> ConcSampleLists]
    /\ loc_flights \in { f \in [Locs -> UNION { ConcFlightInputs(l) : l \in Locs }] :
                            \A l \in Locs : f[l] \in ConcFlightInputs(l) }
    /\ pc = [l \in Locs |-> "wastewater"]
    /\ frame = [l \in Locs |-> NoFrame]
    /\ results = [l \in Locs |-> NoResult]
    /\ epoch_inputs = [risk_map |-> risk_map, samples |-> loc_samples,
                       flights |-> loc_flights]
    /\ change = NoChange
    /\ engine = ClassEngine
    /\ ForecastIdle
    /\ RegionIdle

\* The call for l ends in an exception.
Raise(l) ==
    /\ results' = [results EXCEPT ![l] = Raised]
    /\ pc' = [pc EXCEPT ![l] = "done"]
    /\ UNCHANGED frame

\* wastewater_component = self._calculate_wastewater_component(wastewater_data)
WastewaterStep(l) ==
    /\ pc[l] = "wastewater"
    /\ IF TimestampOrderRaises(loc_samples[l]) THEN Raise(l)
       ELSE /\ frame' = [frame EXCEPT ![l].wastewater_component =
                            CalculateWastewaterComponent(loc_samples[l])]
            /\ pc' = [pc EXCEPT ![l] = "velocity"]
            /\ UNCHANGED results
    /\ UNCHANGED <<now, risk_map, seqvars, auxvars, loc_samples, loc_flights, epoch_inputs>>

\* velocity_component = self._calculate_velocity_component(wastewater_data)
VelocityStep(l) ==
    /\ pc[l] = "velocity"
    /\ frame' = [frame EXCEPT ![l].velocity_component =
                    CalculateVelocityComponent(loc_samples[l])]
    /\ pc' = [pc EXCEPT ![l] = "import"]
    /\ UNCHANGED <<now, risk_map, seqvars, auxvars, loc_samples, loc_flights, results, epoch_inputs>>

\* The risk map with the scores already returned in this epoch written over
\* the prior epoch's.
LiveRiskMap ==
    IF risk_map.k # "val" THEN risk_map
    ELSE Val([o \in DOMAIN risk_map.v |->
                IF o \in Locs /\ results[o].called /\ ~results[o].raised
                THEN Val(results[o].risk_score)
                ELSE risk_map.v[o]])

\* Mutant of ImportStep: origin risks are read from the scores being
\* computed in the current epoch.
ImportStepLive(l) ==
    /\ pc[l] = "import"
    /\ IF ImportRaises(loc_flights[l], LiveRiskMap) THEN Raise(l)
       ELSE /\ frame' = [frame EXCEPT ![l].import_component =
                            CalculateImportComponent(loc_flights[l], LiveRiskMap)]
            /\ pc' = [pc EXCEPT ![l] = "combine"]
            /\ UNCHANGED results
    /\ UNCHANGED <<now, risk_map, seqvars, auxvars, loc_samples, loc_flights, epoch_inputs>>

\* import_component = self._calculate_import_component(flight_data, risk_map)
ImportStep(l) ==
    /\ pc[l] = "import"
    /\ IF ImportRaises(loc_flights[l], risk_map) THEN Raise(l)
       ELSE /\ frame' = [frame EXCEPT ![l].import_component =
                            CalculateImportComponent(loc_flights[l], risk_map)]
            /\ pc' = [pc EXCEPT ![l] = "combine"]
            /\ UNCHANGED results
    /\ UNCHANGED <<now, risk_map, seqvars, auxvars, loc_samples, loc_flights, epoch_inputs>>

\* risk_score = WEIGHT_WASTEWATER * wastewater_component + ...
CombineStep(l) ==
    /\ pc[l] = "combine"
    /\ frame' = [frame EXCEPT ![l].risk_score =
                    CombineComponents(frame[l].wastewater_component,
                                      frame[l].velocity_component,
                                      frame[l].import_component)]
    /\ pc' = [pc EXCEPT ![l] = "trend"]
    /\ UNCHANGED <<now, risk_map, seqvars, auxvars, loc_samples, loc_flights, results, epoch_inputs>>

\* trend = self._determine_trend(wastewater_data)
TrendStep(l) ==
    /\ pc[l] = "trend"
    /\ frame' = [frame EXCEPT ![l].trend = DetermineTrend(loc_samples[l])]
    /\ pc' = [pc EXCEPT ![l] = "confidence"]
    /\ UNCHANGED <<now, risk_map, seqvars, auxvars, loc_samples, loc_flights, results, epoch_inputs>>

\* confidence = self._calculate_confidence(wastewater_data, flight_data)
ConfidenceStep(l) ==
    /\ pc[l] = "confidence"
    /\ frame' = [frame EXCEPT ![l].confidence =
                    CalculateConfidence(loc_samples[l], loc_flights[l], now)]
    /\ pc' = [pc EXCEPT ![l] = "return"]
    /\ UNCHANGED <<now, risk_map, seqvars, auxvars, loc_samples, loc_flights, results, epoch_inputs>>

\* return RiskCalculation(..., last_updated=datetime.utcnow())
ReturnStep(l) ==
    /\ pc[l] = "return"
    /\ results' = [results EXCEPT ![l] =
          [called |-> TRUE, raised |-> FALSE, location_id |-> l,
           risk_score |-> frame[l].risk_score,
           components |-> [wastewater_load |-> frame[l].wastewater_component,
                           growth_velocity |-> frame[l].velocity_component,
                           import_pressure |-> frame[l].import_component],
           confidence |-> frame[l].confidence,
           trend |-> frame[l].trend,
           last_updated |-> now]]
    /\ pc' = [pc EXCEPT ![l] = "done"]
    /\ UNCHANGED <<now, risk_map, seqvars, auxvars, loc_samples, loc_flights, frame, epoch_inputs>>

NextConc ==
    \/ Tick
    \/ \E l \in Locs :
          \/ WastewaterStep(l)
          \/ VelocityStep(l)
          \/ ImportStep(l)
          \/ CombineStep(l)
          \/ TrendStep(l)
          \/ ConfidenceStep(l)
          \/ ReturnStep(l)

SpecConc == InitConc /\ [][NextConc]_vars

(* ------------- the feeds change the inputs between two calls ---------- *)

\* Scores a later epoch may publish for an origin.
RiskLevels == { R(-20), R(10), R(50), R(90), R(150) }

\* Passenger counts a flow record may be revised to.
PaxLevels == { 0, 100, 1000, 10000 }

InitRel ==
    /\ now = 0
    /\ result = NoResult
    /\ previous = NoResult
    /\ \/ /\ wastewater_data \in SampleLists
          /\ flight_data = Val(<<Flight(Val("X"), Val(1000))>>)
          /\ risk_map = Val([o \in {"X"} |-> Val(R(90))])
       \/ /\ wastewater_data = <<>>
          /\ flight_data \in FlightInputs
          /\ risk_map \in RiskMapInputs
       \/ /\ wastewater_data \in SeriesLists
          /\ flight_data = Null(<<>>)
          /\ risk_map = Null(<<>>)
       \/ /\ wastewater_data = <<>>
          /\ flight_data \in { Val(<<Flight(Val("X"), Val(p))>>) : p \in {0, 100} }
          /\ risk_map \in { Val([o \in {"X"} |-> Val(r)]) : r \in RiskLevels }
    /\ ConcIdle
    /\ change = NoChange
    /\ engine = ClassEngine
    /\ ForecastIdle
    /\ RegionIdle

\* The inputs change once, after a call that returned.
Changing(kind) ==
    /\ result.called
    /\ ~result.raised
    /\ change.kind = "none"
    /\ change' = [kind |-> kind, pending |-> TRUE]

\* The same samples are delivered in another order.
ReorderSamples ==
    /\ Changing("reordered")
    /\ \E i, j \in 1..Len(wastewater_data) :
          /\ i < j
          /\ wastewater_data[i] # wastewater_data[j]
          /\ wastewater_data' = [wastewater_data EXCEPT ![i] = wastewater_data[j],
                                                        ![j] = wastewater_data[i]]
    /\ UNCHANGED <<now, risk_map, flight_data, result, previous, concvars, engine, fcvars, aggvars>>

\* One sample is replaced by another reading.
CorrectSample ==
    /\ Changing("corrected")
    /\ \E i \in 1..Len(wastewater_data) : \E s \in SampleSet :
          /\ s # wastewater_data[i]
          /\ wastewater_data' = [wastewater_data EXCEPT ![i] = s]
    /\ UNCHANGED <<now, risk_map, flight_data, result, previous, concvars, engine, fcvars, aggvars>>

\* The risk map holds a higher score for one origin, the others unchanged.
RaiseOriginRisk ==
    /\ Changing("risk_raised")
    /\ risk_map.k = "val"
    /\ \E o \in DOMAIN risk_map.v : \E r \in RiskLevels :
          /\ risk_map.v[o].k = "val"
          /\ RLt(risk_map.v[o].v, r)
          /\ risk_map' = Val([risk_map.v EXCEPT ![o] = Val(r)])
    /\ UNCHANGED <<now, wastewater_data, flight_data, result, previous, concvars, engine, fcvars, aggvars>>

\* One flow carries more passengers, the others unchanged.
RaisePassengers ==
    /\ Changing("passengers_raised")
    /\ flight_data.k = "val"
    /\ \E i \in 1..Len(flight_data.v) : \E p \in PaxLevels :
          /\ flight_data.v[i].passengers.k = "val"
          /\ flight_data.v[i].passengers.v < p
          /\ flight_data' = Val([flight_data.v EXCEPT ![i].passengers = Val(p)])
    /\ UNCHANGED <<now, risk_map, wastewater_data, result, previous, concvars, engine, fcvars, aggvars>>

NextRel ==
    \/ CalculateRiskCall
    \/ ReorderSamples
    \/ CorrectSample
    \/ RaiseOriginRisk
    \/ RaisePassengers

SpecRel == InitRel /\ [][NextRel]_vars

(* --------------------------- forecast calls --------------------------- *)

InitForecast ==
    /\ now = 0
    /\ wastewater_data = <<>>
    /\ flight_data = Null(<<>>)
    /\ risk_map = Null(<<>>)
    /\ result = NoResult
    /\ previous = NoResult
    /\ ConcIdle
    /\ change = NoChange
    /\ engine = ClassEngine
    /\ forecast = NoForecast
    /\ RegionIdle
    /\ \/ /\ historical_data \in Histories
          /\ days \in 0..MaxDays
       \/ /\ historical_data \in LongHistories
          /\ days \in {1, 7, LongHorizon}
       \/ /\ historical_data \in RisingHistories
          /\ days \in (1..MaxDays) \cup {7}

\* engine.calculate_forecast(historical_data, days)
CalculateForecastCall ==
    /\ forecast' \in CalculateForecast(historical_data, days, now)
    /\ UNCHANGED <<now, risk_map, seqvars, concvars, change, engine, historical_data, days, aggvars>>

NextForecast == CalculateForecastCall \/ Tick

SpecForecast == InitForecast /\ [][NextForecast]_vars

(* ----------------- engines with other weights configured -------------- *)

\* The three WEIGHT_ attributes as the class sets them, and as a subclass
\* or a deployment may set them: summing to 1.0 or not.
WeightConfigs ==
    { ClassWeights,
      [wastewater |-> Rat(50, 100), velocity |-> Rat(25, 100), import |-> Rat(25, 100)],
      [wastewater |-> Rat(40, 100), velocity |-> Rat(30, 100), import |-> Rat(50, 100)],
      [wastewater |-> Rat(20, 100), velocity |-> Rat(30, 100), import |-> Rat(30, 100)],
      [wastewater |-> R(1), velocity |-> R(1), import |-> R(1)] }

\* Lines 114-118 of calculate_risk, with the weights read through self.
CombineComponentsWith(weights, components) ==
    RAdd(RAdd(RMul(weights.wastewater, components.wastewater_load),
              RMul(weights.velocity, components.growth_velocity)),
         RMul(weights.import, components.import_pressure))

InitConfig ==
    /\ now = 0
    /\ result = NoResult
    /\ previous = NoResult
    /\ wastewater_data \in SampleLists
    /\ flight_data = Val(<<Flight(Val("X"), Val(1000))>>)
    /\ risk_map = Val([o \in {"X"} |-> Val(R(90))])
    /\ ConcIdle
    /\ change = NoChange
    /\ engine \in { [constructed |-> FALSE, weights |-> w] : w \in WeightConfigs }
    /\ ForecastIdle
    /\ RegionIdle

\* engine = RiskEngine(): __init__ is "pass", it reads no weight.
Construct ==
    /\ ~engine.constructed
    /\ engine' = [engine EXCEPT !.constructed = TRUE]
    /\ UNCHANGED <<now, risk_map, seqvars, concvars, change, fcvars, aggvars>>

\* engine.calculate_risk(...) on the constructed engine, whatever its weights.
ConfiguredCall ==
    /\ engine.constructed
    /\ LET r == CalculateRisk("loc_test", wastewater_data, flight_data, risk_map, now)
       IN  result' = IF r.raised THEN r
                     ELSE [r EXCEPT !.risk_score =
                              CombineComponentsWith(engine.weights, r.components)]
    /\ previous' = result
    /\ UNCHANGED <<now, wastewater_data, flight_data, risk_map, concvars, auxvars>>

NextConfig == Construct \/ ConfiguredCall

SpecConfig == InitConfig /\ [][NextConfig]_vars

(* ======================= properties of Spec ========================== *)

\* The latest call returned a RiskCalculation (it did not raise).
Returned == result.called /\ ~result.raised

InRange(x, lo, hi) == RLe(lo, x) /\ RLe(x, hi)

Clamp(x, lo, hi) == RMax(lo, RMin(hi, x))

\* sum(f[j] for j in 1..n)
RECURSIVE SumOver(_, _)
SumOver(f, n) == IF n = 0 THEN R(0) ELSE RAdd(SumOver(f, n - 1), f[n])

\* C1: for every input the returned risk_score and each of the three
\* components lie in [0, 100].
C1_ScoreAndComponentsBounded ==
    Returned =>
        /\ InRange(result.risk_score, R(0), R(100))
        /\ InRange(result.components.wastewater_load, R(0), R(100))
        /\ InRange(result.components.growth_velocity, R(0), R(100))
        /\ InRange(result.components.import_pressure, R(0), R(100))

\* C2: for every sample list, flight list (or none) and clock value the
\* returned confidence lies in [0.1, 1.0].
C2_ConfidenceInRange ==
    Returned => InRange(result.confidence, Rat(1, 10), R(1))

\* C2 witness: one or two samples, the newest more than 14 days old, and no
\* flights: all three penalties compound to 0.7 * 0.5 * 0.9.
C2_Witness ==
    /\ Returned
    /\ Len(wastewater_data) \in {1, 2}
    /\ NoFlights(flight_data)
    /\ result.confidence = Rat(315, 1000)

\* C3: risk_score = clamp(0.40*wastewater + 0.30*growth + 0.30*import, 0, 100)
\* over the components returned in the same result.
C3_ScoreIsClampedWeightedSum ==
    Returned =>
        result.risk_score =
            Clamp(RAdd(RAdd(RMul(Rat(40, 100), result.components.wastewater_load),
                            RMul(Rat(30, 100), result.components.growth_velocity)),
                       RMul(Rat(30, 100), result.components.import_pressure)),
                  R(0), R(100))

\* C4: calculate_risk never ends in an error, whatever fields the records
\* lack or hold as None.
C4_NeverRaises == ~result.raised

\* C6 as claimed: two calls with identical inputs return results identical
\* in every field, whatever time passed between them.
C6_BitIdentical ==
    (result.called /\ previous.called) => result = previous

\* C6 as amended: two calls with identical inputs agree on raising, on
\* location_id, risk_score, the three components and trend whatever time
\* passed between them, and on every field when the clock read the same.
C6_IdenticalUpToClock ==
    (result.called /\ previous.called) =>
        /\ result.raised = previous.raised
        /\ result.location_id = previous.location_id
        /\ result.risk_score = previous.risk_score
        /\ result.components = previous.components
        /\ result.trend = previous.trend
        /\ (result.last_updated = previous.last_updated => result = previous)

\* C6 witness: two returning calls on the same inputs, at different clock
\* values, whose confidence differs.
C6_Witness ==
    /\ Returned
    /\ previous.called /\ ~previous.raised
    /\ result.last_updated # previous.last_updated
    /\ result.confidence # previous.confidence

\* Exactly 7 samples with distinct timestamps and positive loads.
SevenPointSeries(data) ==
    /\ Len(data) = 7
    /\ \A i \in 1..7 : data[i].timestamp.k = "val" /\ RLt(R(0), GetLoad(data[i]))
    /\ \A i, j \in 1..7 : i # j => data[i].timestamp.v # data[j].timestamp.v

\* The loads in order of time.
LoadsOverTime(data) == Loads(SortedByTimestamp(data))

StrictlyIncreasing(loads) == \A i \in 1..(Len(loads) - 1) : RLt(loads[i], loads[i + 1])
StrictlyDecreasing(loads) == \A i \in 1..(Len(loads) - 1) : RLt(loads[i + 1], loads[i])
ConstantLoads(loads) == \A i \in 1..(Len(loads) - 1) : loads[i] = loads[i + 1]

\* C7: for 7 samples with distinct timestamps and positive loads the growth
\* component is > 50 when the loads strictly increase over time, < 50 when
\* they strictly decrease, and 50 when they are constant.
C7_GrowthFollowsSeries ==
    (Returned /\ SevenPointSeries(wastewater_data)) =>
        LET loads == LoadsOverTime(wastewater_data)
            growth == result.components.growth_velocity
        IN  /\ StrictlyIncreasing(loads) => RLt(R(50), growth)
            /\ StrictlyDecreasing(loads) => RLt(growth, R(50))
            /\ ConstantLoads(loads) => growth = R(50)

\* C8 as claimed: for 7 samples with distinct timestamps and positive loads
\* every strictly increasing series is 'rising', every strictly decreasing
\* one 'falling', and a constant one 'stable'.
C8_TrendFollowsSeries ==
    (Returned /\ SevenPointSeries(wastewater_data)) =>
        LET loads == LoadsOverTime(wastewater_data)
        IN  /\ StrictlyIncreasing(loads) => result.trend = "rising"
            /\ StrictlyDecreasing(loads) => result.trend = "falling"
            /\ ConstantLoads(loads) => result.trend = "stable"

\* sum of (i - 3) * y_i over the seven loads y_0..y_6
RECURSIVE CentredMoment(_, _)
CentredMoment(loads, j) ==
    IF j > Len(loads) THEN R(0)
    ELSE RAdd(RMul(R(j - 4), loads[j]), CentredMoment(loads, j + 1))

\* C8 as amended: a strictly increasing series is 'rising' when its
\* least-squares slope exceeds 0.05 of its mean load (5 * sum((i-3)*y_i) >
\* sum(y_i)) and 'stable' otherwise, never 'falling'; a strictly decreasing
\* one is 'falling' when the slope is below -0.05 of the mean and 'stable'
\* otherwise, never 'rising'; a constant one is 'stable'.
C8_TrendBySlope ==
    (Returned /\ SevenPointSeries(wastewater_data)) =>
        LET loads == LoadsOverTime(wastewater_data)
            moment == RMul(R(5), CentredMoment(loads, 1))
            total == RSum(loads)
        IN  /\ StrictlyIncreasing(loads) =>
                result.trend = IF RLt(total, moment) THEN "rising" ELSE "stable"
            /\ StrictlyDecreasing(loads) =>
                result.trend = IF RLt(moment, RSub(R(0), total)) THEN "falling" ELSE "stable"
            /\ ConstantLoads(loads) => result.trend = "stable"

\* C8 witness: a strictly increasing 7-point series labelled 'stable'.
C8_Witness ==
    /\ Returned
    /\ SevenPointSeries(wastewater_data)
    /\ StrictlyIncreasing(LoadsOverTime(wastewater_data))
    /\ result.trend = "stable"

\* No samples, no flow data and no entry in the risk map.
NoDataAtAll ==
    /\ wastewater_data = <<>>
    /\ NoFlights(flight_data)
    /\ risk_map = Val(<<>>)

\* C9 as claimed: with no samples, no flow data and an empty risk map the
\* components are 50, 50 and 30, the risk_score is 47.0 and the confidence
\* is at most 0.45.
C9_DefaultsScore47 ==
    (Returned /\ NoDataAtAll) =>
        /\ result.components.wastewater_load = R(50)
        /\ result.components.growth_velocity = R(50)
        /\ result.components.import_pressure = R(30)
        /\ result.risk_score = R(47)
        /\ RLe(result.confidence, Rat(45, 100))

\* C9 as amended: with no samples, no flow data and an empty risk map the
\* components are 50, 50 and 30, the risk_score is 44.0 (0.4*50 + 0.3*50 +
\* 0.3*30) and the confidence is at most 0.45.
C9_DefaultsScore44 ==
    (Returned /\ NoDataAtAll) =>
        /\ result.components.wastewater_load = R(50)
        /\ result.components.growth_velocity = R(50)
        /\ result.components.import_pressure = R(30)
        /\ result.risk_score = R(44)
        /\ RLe(result.confidence, Rat(45, 100))

\* C9 witness: a call with no data at all has returned.
C9_Witness == Returned /\ NoDataAtAll /\ result.confidence = Rat(45, 100)

\* C10: a single inbound flow of 1000 passengers from origin X with
\* risk_map = {X: 90} gives an import component strictly above 50.
C10_HighRiskOriginAbove50 ==
    ( /\ Returned
      /\ flight_data = Val(<<Flight(Val("X"), Val(1000))>>)
      /\ risk_map = Val([o \in {"X"} |-> Val(R(90))]) )
    => RLt(R(50), result.components.import_pressure)

\* The sample ingested latest (last in the list) among those holding the
\* greatest timestamp.
LatestIngestedOfGreatest(data) ==
    LET i == CHOOSE j \in 1..Len(data) :
                 /\ \A m \in 1..Len(data) : TimestampKey(data[m]) <= TimestampKey(data[j])
                 /\ \A m \in (j + 1)..Len(data) : TimestampKey(data[m]) < TimestampKey(data[j])
    IN  data[i]

\* C14: the wastewater component is computed from the sample with the
\* greatest timestamp, and among several samples sharing the greatest
\* timestamp from the one that is last in the input list.
C14_TiesBrokenByLatestIngestion ==
    (Returned /\ wastewater_data # <<>>) =>
        result.components.wastewater_load =
            CalculateWastewaterComponent(<<LatestIngestedOfGreatest(wastewater_data)>>)

\* The wastewater component as section 4.1 defines it on one sample.
NormalizerRule(sample) ==
    IF NotNone(sample.normalized_score)
    THEN Clamp(RMul(sample.normalized_score.v, R(100)), R(0), R(100))
    ELSE IF NotNone(sample.raw_load)
         THEN RMul(Clamp(Rat(sample.raw_load.v, 1000000000), R(0), R(1)), R(100))
         ELSE R(50)

\* C15: on the sample the engine selects as most recent, the wastewater
\* component is clamp(normalized_score*100, 0, 100) when normalized_score is
\* present (also when raw_load is present too), else
\* clamp(raw_load/1e9, 0, 1)*100 when raw_load is present, else 50.0; with
\* no samples it is 50.0.
C15_NormalizerRule ==
    Returned =>
        result.components.wastewater_load =
            IF wastewater_data = <<>> THEN R(50)
            ELSE NormalizerRule(SortedByTimestampReverse(wastewater_data)[1])

\* The import component the claim gives for the flows and the map.
ClaimedImport(flights, map) ==
    LET n == Len(flights)
        origin_risk == [j \in 1..n |-> RDiv(OriginRiskEntry(flights[j], map).v, R(100))]
        pax == [j \in 1..n |-> Passengers(flights[j])]
        total_pax == SumOver([j \in 1..n |-> R(pax[j])], n)
        avg == IF total_pax = R(0) THEN R(0)
               ELSE RDiv(SumOver([j \in 1..n |-> RMul(R(pax[j]), origin_risk[j])], n),
                         total_pax)
        volume == RMin(R(1), RDiv(total_pax, R(10000)))
    IN  Clamp(RMul(RMul(avg, R(100)), RAdd(Rat(1, 2), RMul(Rat(1, 2), volume))),
              R(0), R(100))

\* C23: with a non-empty flow list and a non-empty risk map the import
\* component is clamp(avg*100*(0.5+0.5*min(1, total_pax/10000)), 0, 100),
\* avg being the passenger-weighted mean of the origin risks (50/100 for an
\* origin absent from the map) and 0 when total_pax is 0; with no flows or
\* no risk map it is 30.0.
C23_ImportComponentFormula ==
    Returned =>
        result.components.import_pressure =
            IF NoFlights(flight_data) \/ NoRiskMap(risk_map) THEN R(30)
            ELSE ClaimedImport(flight_data.v, risk_map)

\* The timestamps the samples carry.
KnownTimestamps(data) ==
    { data[j].timestamp.v : j \in { k \in 1..Len(data) : NotNone(data[k].timestamp) } }

\* The age in days of the newest sample at the time of the call, for a list
\* with at least one timestamp.
NewestAge(data, clock) ==
    clock - (CHOOSE t \in KnownTimestamps(data) : \A u \in KnownTimestamps(data) : u <= t)

\* The confidence the claim gives: the product of the factors that apply,
\* floored at 0.1.
ClaimedConfidence(data, flights, clock) ==
    LET count_factor == IF Len(data) = 0 THEN Rat(5, 10)
                        ELSE IF Len(data) <= 2 THEN Rat(7, 10)
                        ELSE R(1)
        age_factor == IF KnownTimestamps(data) = {} THEN R(1)
                      ELSE IF NewestAge(data, clock) > 14 THEN Rat(5, 10)
                      ELSE IF NewestAge(data, clock) > 7 THEN Rat(8, 10)
                      ELSE R(1)
        flow_factor == IF NoFlights(flights) THEN Rat(9, 10) ELSE R(1)
    IN  RMax(Rat(1, 10), RMul(RMul(count_factor, age_factor), flow_factor))

\* C24: confidence = max(0.1, product of the applicable factors), from 1.0:
\* x0.5 with no samples, x0.7 with 1 or 2 samples; x0.5 when the newest
\* sample is older than 14 days, x0.8 when older than 7 but not older than
\* 14; x0.9 when no flow data is available; penalties are only multiplied.
C24_ConfidenceIsProductOfFactors ==
    Returned =>
        result.confidence = ClaimedConfidence(wastewater_data, flight_data, result.last_updated)

\* C24 witness: a short list whose newest sample is between 8 and 14 days
\* old, and no flights: confidence 0.7 * 0.8 * 0.9.
C24_Witness ==
    /\ Returned
    /\ Len(wastewater_data) \in {1, 2}
    /\ KnownTimestamps(wastewater_data) # {}
    /\ NewestAge(wastewater_data, result.last_updated) \in 8..14
    /\ NoFlights(flight_data)
    /\ result.confidence = Rat(504, 1000)

\* C29: the 0.1 floor is never the binding bound: for all inputs and clock
\* values the confidence returned by calculate_risk is at least 0.315
\* (= 0.7*0.5*0.9), the no-sample and sparse-sample penalties being
\* mutually exclusive and the staleness penalty needing a sample.
C29_ConfidenceAtLeast0315 ==
    Returned => RLe(Rat(315, 1000), result.confidence)

\* C29 witness: the bound is attained by a sparse list without flights once
\* its newest sample is more than 14 days old; the call before, when it was
\* not, returned a higher confidence.
C29_Witness ==
    /\ Returned /\ previous.called /\ ~previous.raised
    /\ wastewater_data # <<>>
    /\ KnownTimestamps(wastewater_data) # {}
    /\ NewestAge(wastewater_data, result.last_updated) > 14
    /\ NewestAge(wastewater_data, previous.last_updated) <= 14
    /\ result.confidence = Rat(315, 1000)
    /\ RLt(result.confidence, previous.confidence)

\* A risk map with a risk for every origin.
FullRiskMap == Val([o \in {"X", "Y"} |-> Val(R(50))])

\* The flights are given but yield only the default import component: the
\* risk map is missing or empty, or the flights carry no passengers.
FlightsWithoutImport ==
    /\ ~NoFlights(flight_data)
    /\ \/ NoRiskMap(risk_map)
       \/ TotalPassengers(flight_data.v) = 0

\* The same call with a full risk map.
WithFullRiskMap ==
    CalculateRisk("loc_test", wastewater_data, flight_data, FullRiskMap, result.last_updated)

\* C30: the confidence does not depend on the risk map or on passenger
\* counts: with a non-empty flight list, a call with a missing or empty
\* risk map (or with flights of 0 passengers in total) returns the default
\* import component 30.0 and the confidence of a call with a full risk
\* map, without the x0.9 missing-flow penalty.
C30_ConfidenceIgnoresRiskMap ==
    (Returned /\ FlightsWithoutImport) =>
        /\ result.components.import_pressure = R(30)
        /\ result.confidence =
              ClaimedConfidence(wastewater_data, Val(<<Flight(Val("X"), Val(1000))>>),
                                result.last_updated)
        /\ ~WithFullRiskMap.raised => result.confidence = WithFullRiskMap.confidence

\* C30 witness: flights without a risk map and no samples: import component
\* 30.0 (not what a full risk map gives) and confidence 0.5, not 0.45.
C30_Witness ==
    /\ Returned
    /\ ~NoFlights(flight_data)
    /\ NoRiskMap(risk_map)
    /\ ~WithFullRiskMap.raised
    /\ WithFullRiskMap.components.import_pressure # R(30)
    /\ result.components.import_pressure = R(30)
    /\ wastewater_data = <<>>
    /\ result.confidence = Rat(1, 2)

\* The scalar the claim takes from a sample, where it has one:
\* normalized_score if present, else raw_load/1e9.
HasScalar(sample) == NotNone(sample.normalized_score) \/ NotNone(sample.raw_load)

ScalarOf(sample) ==
    IF NotNone(sample.normalized_score) THEN sample.normalized_score.v
    ELSE Rat(sample.raw_load.v, 1000000000)

\* The scalars of the usable samples of a list, in its order.
RECURSIVE Scalars(_)
Scalars(data) ==
    IF data = <<>> THEN <<>>
    ELSE (IF HasScalar(data[1]) THEN <<ScalarOf(data[1])>> ELSE <<>>) \o Scalars(Tail(data))

MeanOf(xs) == RDiv(SumOver(xs, Len(xs)), R(Len(xs)))

\* Steps 2-4 of the claim: the velocity of the scalars in time order.
ClaimedVelocity(xs) ==
    LET n == Len(xs)
    IN  IF n >= 7
        THEN LET recent == MeanOf(SubSeq(xs, n - 6, n))
                 prior == IF n >= 14 THEN MeanOf(SubSeq(xs, n - 13, n - 7))
                          ELSE MeanOf(SubSeq(xs, 1, 7))
             IN  IF RLt(R(0), prior) THEN RDiv(RSub(recent, prior), prior) ELSE R(0)
        ELSE IF n >= 2
        THEN IF RLt(R(0), xs[1]) THEN RDiv(RSub(xs[n], xs[1]), xs[1]) ELSE R(0)
        ELSE R(0)

\* Step 5 of the claim.
ClaimedGrowth(data) ==
    LET velocity == ClaimedVelocity(Scalars(SortedByTimestamp(data)))
    IN  RMul(RDiv(RAdd(RDiv(Clamp(velocity, Rat(-1, 2), Rat(1, 2)), Rat(1, 2)), R(1)), R(2)),
             R(100))

\* C25: the growth component equals the reference of steps 1-5: one scalar
\* per sample in timestamp order (normalized_score if present, else
\* raw_load/1e9, else the sample is skipped), the 7-against-7 velocity with
\* 7 or more usable samples, newest against oldest with 2-6, 0 with fewer,
\* mapped to ((clamp(velocity, -0.5, 0.5)/0.5)+1)/2*100; a sample with
\* normalized_score 0 contributes the scalar 0.
C25_GrowthEqualsReference ==
    Returned => result.components.growth_velocity = ClaimedGrowth(wastewater_data)

\* The loads of the last 7 samples by timestamp (of all, when there are
\* fewer).
LastSevenLoads(data) ==
    LET sorted == SortedByTimestamp(data)
    IN  Loads(SubSeq(sorted, IF Len(sorted) > 7 THEN Len(sorted) - 6 ELSE 1, Len(sorted)))

\* The least-squares slope of ys against the indices 0..n-1:
\* (n*sum(i*y_i) - sum(i)*sum(y_i)) / (n*sum(i*i) - sum(i)^2)
LeastSquaresSlope(ys) ==
    LET n == Len(ys)
        sxy == SumOver([j \in 1..n |-> RMul(R(j - 1), ys[j])], n)
        sx == SumOver([j \in 1..n |-> R(j - 1)], n)
        sxx == SumOver([j \in 1..n |-> R((j - 1) * (j - 1))], n)
        sy == SumOver(ys, n)
    IN  RDiv(RSub(RMul(R(n), sxy), RMul(sx, sy)), RSub(RMul(R(n), sxx), RMul(sx, sx)))

\* The slope relative to the mean load, for 3 or more loads of positive mean.
RelativeSlope(ys) == RDiv(LeastSquaresSlope(ys), MeanOf(ys))

\* The label the claim gives a sample list.
ClaimedTrend(data) ==
    LET ys == LastSevenLoads(data)
    IN  IF Len(ys) < 3 THEN "stable"
        ELSE IF ~RLt(R(0), MeanOf(ys)) THEN "stable"
        ELSE IF RLt(Rat(5, 100), RelativeSlope(ys)) THEN "rising"
        ELSE IF RLt(RelativeSlope(ys), Rat(-5, 100)) THEN "falling"
        ELSE "stable"

\* C26: the trend label comes from the loads of the last 7 samples by
\* timestamp: 'rising' when the least-squares slope over the indices
\* 0..n-1, divided by the mean load, is above 0.05, 'falling' when below
\* -0.05, 'stable' otherwise (also exactly at 0.05 and -0.05, and when the
\* mean is not positive); with fewer than 3 points it is 'stable'; it is
\* always one of the three values.
C26_TrendLabelByRelativeSlope ==
    Returned =>
        /\ result.trend = ClaimedTrend(wastewater_data)
        /\ result.trend \in {"rising", "falling", "stable"}

\* C26 witness: a list whose relative slope is exactly 0.05 or -0.05,
\* labelled 'stable'.
C26_Witness ==
    /\ Returned
    /\ Len(wastewater_data) >= 3
    /\ RLt(R(0), MeanOf(LastSevenLoads(wastewater_data)))
    /\ RelativeSlope(LastSevenLoads(wastewater_data)) \in {Rat(5, 100), Rat(-5, 100)}
    /\ result.trend = "stable"

(* ===================== properties of SpecConc ======================== *)

\* C5: when calculate_risk runs for several locations in any interleaving
\* against one prior-epoch risk_map, the map and the sample and flight lists
\* are never written, and every finished call's result is the result of
\* running that location alone on the inputs handed over (at some reading
\* of the clock): an origin that is itself being computed is scored from
\* the prior epoch's value.
C5_IsolatedFromOtherLocations ==
    /\ risk_map = epoch_inputs.risk_map
    /\ loc_samples = epoch_inputs.samples
    /\ loc_flights = epoch_inputs.flights
    /\ \A l \in Locs :
          (pc[l] = "done") =>
             \E t \in { k * TickDays : k \in 0..MaxTicks } :
                t <= now /\ results[l] =
                   [CalculateRisk(l, epoch_inputs.samples[l], epoch_inputs.flights[l],
                                  epoch_inputs.risk_map, t)
                       EXCEPT !.last_updated = results[l].last_updated]

\* C5 witness: both calls have returned, A has inbound flights from B, B is
\* in the risk map, and the score B got in this epoch differs from the
\* prior-epoch score A's import pressure was computed from.
C5_Witness ==
    /\ \A l \in Locs : pc[l] = "done" /\ results[l].called /\ ~results[l].raised
    /\ ~NoFlights(loc_flights["A"])
    /\ "B" \in DOMAIN risk_map.v
    /\ results["B"].risk_score # risk_map.v["B"].v
    /\ results["A"].components.import_pressure # R(30)

(* ====================== properties of SpecRel ======================== *)

\* The latest two calls returned, the first before and the second after a
\* change of the given kind.
Compared(kind) ==
    /\ change.kind = kind
    /\ ~change.pending
    /\ Returned
    /\ previous.called
    /\ ~previous.raised

\* Every flow comes from one origin, which has a score in the risk map,
\* and carries a passenger count that is not negative.
OneOriginFlows(flights, map) ==
    /\ flights.k = "val"
    /\ flights.v # <<>>
    /\ map.k = "val"
    /\ \A i \in 1..Len(flights.v) :
          /\ flights.v[i].origin_id = flights.v[1].origin_id
          /\ flights.v[i].origin_id.k = "val"
          /\ flights.v[i].origin_id.v \in DOMAIN map.v
          /\ map.v[flights.v[i].origin_id.v].k = "val"
          /\ Passengers(flights.v[i]) >= 0

\* C11: for a fixed origin risk, a larger total inbound passenger count
\* (from 0 up to the saturation point of 10,000) never gives a smaller
\* import component.
C11_ImportMonotoneInPassengers ==
    ( /\ Compared("passengers_raised")
      /\ OneOriginFlows(flight_data, risk_map)
      /\ TotalPassengers(flight_data.v) <= 10000 )
    => RLe(previous.components.import_pressure, result.components.import_pressure)

\* No flow carries a negative passenger count.
NonNegativeFlows(flights) ==
    flights.k = "val" => \A i \in 1..Len(flights.v) : Passengers(flights.v[i]) >= 0

\* C12: for a fixed list of flows with non-negative passenger counts,
\* raising the risk-map value of one origin, the others unchanged, never
\* gives a smaller import component.
C12_ImportMonotoneInOriginRisk ==
    (Compared("risk_raised") /\ NonNegativeFlows(flight_data))
    => RLe(previous.components.import_pressure, result.components.import_pressure)

\* C12 witness: the score of the origin of a flow with passengers was
\* raised and the import component rose.
C12_Witness ==
    /\ Compared("risk_raised")
    /\ NonNegativeFlows(flight_data)
    /\ ~NoFlights(flight_data)
    /\ RLt(previous.components.import_pressure, result.components.import_pressure)

\* Between the two results only component c changed, and it did not decrease.
OnlyRaised(c) ==
    /\ RLe(previous.components[c], result.components[c])
    /\ \A d \in {"wastewater_load", "growth_velocity", "import_pressure"} \ {c} :
          previous.components[d] = result.components[d]

\* C13: when one component is larger and the other two are the same, the
\* risk_score composed from them is not smaller.
C13_ScoreMonotoneInEachComponent ==
    \A kind \in {"reordered", "corrected", "risk_raised", "passengers_raised"} :
       Compared(kind) =>
          \A c \in {"wastewater_load", "growth_velocity", "import_pressure"} :
             OnlyRaised(c) => RLe(previous.risk_score, result.risk_score)

\* C13 witness: a corrected sample raised the growth component alone, and
\* the risk_score rose.
C13_Witness ==
    /\ Compared("corrected")
    /\ OnlyRaised("growth_velocity")
    /\ RLt(previous.components.growth_velocity, result.components.growth_velocity)
    /\ RLt(previous.risk_score, result.risk_score)

\* Every sample has a timestamp and no two samples share one.
DistinctTimestamps(data) ==
    /\ \A i \in 1..Len(data) : data[i].timestamp.k = "val"
    /\ \A i, j \in 1..Len(data) : i # j => data[i].timestamp.v # data[j].timestamp.v

\* C16: for samples with pairwise distinct timestamps, calculate_risk
\* returns the same wastewater component, growth component, trend and
\* confidence whatever the order of the list.
C16_OrderOfSamplesIrrelevant ==
    ( /\ change.kind = "reordered"
      /\ ~change.pending
      /\ DistinctTimestamps(wastewater_data) )
    => /\ Returned
       /\ result.components.wastewater_load = previous.components.wastewater_load
       /\ result.components.growth_velocity = previous.components.growth_velocity
       /\ result.trend = previous.trend
       /\ result.confidence = previous.confidence

\* C16 witness: three or more samples with distinct timestamps were
\* reordered, and their trend is not the default one.
C16_Witness ==
    /\ Compared("reordered")
    /\ DistinctTimestamps(wastewater_data)
    /\ Len(wastewater_data) >= 3
    /\ result.trend # "stable"
    /\ result.components.growth_velocity # R(50)

(* ===================== properties of SpecConfig ====================== *)

WeightsSumToOne(weights) ==
    RAdd(RAdd(weights.wastewater, weights.velocity), weights.import) = R(1)

\* C17: an engine whose three weights do not sum to 1.0 is rejected when it
\* is constructed: it never comes to exist, and no risk is calculated with
\* such weights.
C17_BadWeightsRejectedAtConstruction ==
    ~WeightsSumToOne(engine.weights) => (~engine.constructed /\ ~result.called)

(* ------------------------ regional aggregation calls ------------------ *)

InitRegion ==
    /\ now = 0
    /\ wastewater_data = <<>>
    /\ flight_data = Null(<<>>)
    /\ risk_map = Null(<<>>)
    /\ result = NoResult
    /\ previous = NoResult
    /\ ConcIdle
    /\ change = NoChange
    /\ engine = ClassEngine
    /\ ForecastIdle
    /\ location_risks \in LocationRiskLists
    /\ region_weights \in WeightInputs
    /\ regional = NoRegional

\* engine.aggregate_regional_risk(location_risks, weights)
AggregateRegionalRiskCall ==
    /\ regional' = [called |-> TRUE,
                    value |-> AggregateRegionalRisk(location_risks, region_weights)]
    /\ UNCHANGED <<now, risk_map, seqvars, concvars, change, engine, fcvars,
                   location_risks, region_weights>>

NextRegion == AggregateRegionalRiskCall

SpecRegion == InitRegion /\ [][NextRegion]_vars

(* ==================== properties of SpecForecast ===================== *)

\* The latest calculate_forecast call returned a list of points.
ForecastReturned == forecast.called /\ ~forecast.raised

\* The last known score of a history, 50.0 when there is none.
LastKnownScore(history) ==
    IF history = <<>> THEN R(50)
    ELSE Scores(SortedByDate(history))[Len(history)]

\* C18: calculate_forecast(history, days) returns exactly days points for
\* every history, the empty one included; for fewer than 3 points they are
\* a flat forecast at the last known score, or at 50.0 when there is none.
C18_ExactlyDaysPoints ==
    ForecastReturned =>
        /\ Len(forecast.points) = days
        /\ Len(historical_data) < 3 =>
              \A i \in 1..Len(forecast.points) :
                 forecast.points[i].risk_score \in RoundTenth(LastKnownScore(historical_data))

\* C19: every point of every returned forecast has risk_score,
\* confidence_low and confidence_high in [0, 100], on the smoothing path and
\* on the flat path, also for histories with scores outside 0-100.
C19_ForecastPointsBounded ==
    ForecastReturned =>
        \A i \in 1..Len(forecast.points) :
           /\ InRange(forecast.points[i].risk_score, R(0), R(100))
           /\ InRange(forecast.points[i].confidence_low, R(0), R(100))
           /\ InRange(forecast.points[i].confidence_high, R(0), R(100))

\* A history of 7 or more points, all at 50.0.
ConstantAtFifty(history) ==
    /\ Len(history) >= 7
    /\ \A j \in 1..Len(history) : history[j].risk_score = Val(R(50))

\* confidence_high - confidence_low of the i-th forecast point
BandWidth(i) ==
    RSub(forecast.points[i].confidence_high, forecast.points[i].confidence_low)

\* The step at which the margin 5*sqrt(i) reaches the distance from 50.0
\* to either end of the 0-100 range.
BandFullAt == (50 \div 5) * (50 \div 5)

\* C20 as claimed: for a history of 7 or more points all at 50.0 every
\* forecast point has risk_score 50.0, and the band is strictly wider at
\* step i+1 than at step i, for every i and every horizon.
C20_BandAlwaysWidens ==
    (ForecastReturned /\ ConstantAtFifty(historical_data)) =>
        /\ \A i \in 1..Len(forecast.points) : forecast.points[i].risk_score = R(50)
        /\ \A i \in 1..(Len(forecast.points) - 1) : RLt(BandWidth(i), BandWidth(i + 1))

\* C20 as amended: every forecast point has risk_score 50.0; the band is
\* strictly wider at step i+1 than at step i up to step 100, where it
\* covers the whole 0-100 range, and from then on its width stays 100.
C20_BandWidensUntilFull ==
    (ForecastReturned /\ ConstantAtFifty(historical_data)) =>
        /\ \A i \in 1..Len(forecast.points) : forecast.points[i].risk_score = R(50)
        /\ \A i \in 1..(Len(forecast.points) - 1) :
              IF i < BandFullAt THEN RLt(BandWidth(i), BandWidth(i + 1))
              ELSE BandWidth(i) = R(100) /\ BandWidth(i + 1) = R(100)

\* C20 witness: a forecast past step 100 for a constant history, still
\* widening at step 99 and full from step 100.
C20_Witness ==
    /\ ForecastReturned
    /\ ConstantAtFifty(historical_data)
    /\ Len(forecast.points) > BandFullAt
    /\ RLt(BandWidth(BandFullAt - 1), BandWidth(BandFullAt))
    /\ BandWidth(BandFullAt + 1) = R(100)

\* A history of 3 or more points with dates and scores, the scores within
\* 0-100 and strictly increasing with the date.
StrictlyRising(history) ==
    /\ Len(history) >= 3
    /\ \A j \in 1..Len(history) :
          /\ NotNone(history[j].date) /\ NotNone(history[j].risk_score)
          /\ InRange(history[j].risk_score.v, R(0), R(100))
    /\ \A j \in 1..(Len(history) - 1) :
          /\ history[j].date.v < history[j + 1].date.v
          /\ RLt(history[j].risk_score.v, history[j + 1].risk_score.v)

\* C21: for a history of 3 or more points whose scores strictly increase
\* with the date (all within 0-100, the forecast below the 100 clamp), the
\* risk_score of the last forecast point is greater than the last
\* historical risk_score.
C21_ForecastFollowsRisingTrend ==
    (/\ ForecastReturned
     /\ StrictlyRising(historical_data)
     /\ days >= 1
     /\ \A i \in 1..Len(forecast.points) : RLt(forecast.points[i].risk_score, R(100)))
        => RLt(historical_data[Len(historical_data)].risk_score.v,
               forecast.points[Len(forecast.points)].risk_score)

(* ====================== properties of SpecRegion ===================== *)

\* The weight the claim gives the j-th location of the list.
ClaimedWeight(j) ==
    IF location_risks[j].location_id \in DOMAIN region_weights.v
    THEN region_weights.v[location_risks[j].location_id] ELSE R(1)

\* C22: aggregate_regional_risk returns the arithmetic mean of the
\* locations' risk scores when no weights are given, the weighted mean
\* sum(score*w)/sum(w) with w = weights[location_id] (1.0 for a location
\* absent from weights) when weights are given, and 50.0 when the list of
\* locations is empty or the total weight is not positive.
C22_RegionalMean ==
    regional.called =>
        LET n == Len(location_risks)
            score == [j \in 1..n |-> location_risks[j].risk_score]
        IN  IF n = 0 THEN regional.value = R(50)
            ELSE IF region_weights.k = "null"
            THEN regional.value = RDiv(SumOver(score, n), R(n))
            ELSE LET w == [j \in 1..n |-> ClaimedWeight(j)]
                     total == SumOver(w, n)
                 IN  IF RLe(total, R(0)) THEN regional.value = R(50)
                     ELSE regional.value =
                            RDiv(SumOver([j \in 1..n |-> RMul(score[j], w[j])], n), total)

\* C22 witness: a weighted mean over a listed and an unlisted location that
\* differs from the plain mean of their scores.
C22_Witness ==
    /\ regional.called
    /\ Len(location_risks) = 2
    /\ NotNone(region_weights)
    /\ \E j, k \in 1..2 :
          /\ location_risks[j].location_id \in DOMAIN region_weights.v
          /\ location_risks[k].location_id \notin DOMAIN region_weights.v
    /\ regional.value # RDiv(RAdd(location_risks[1].risk_score,
                                  location_risks[2].risk_score), R(2))

\* The scores of the history in date order: x_0 .. x_last as xs[1] .. xs[n].
ScoresByDate == Scores(SortedByDate(historical_data))

\* S_0 = x_0 and S_t = 0.3*x_t + 0.7*S_(t-1); S_t is ExpSmoothed(xs, t + 1).
RECURSIVE ExpSmoothed(_, _)
ExpSmoothed(xs, t) ==
    IF t = 1 THEN xs[1]
    ELSE RAdd(RMul(Rat(3, 10), xs[t]), RMul(Rat(7, 10), ExpSmoothed(xs, t - 1)))

\* The per-step trend measured against the smoothed value `back` positions
\* before the last when there are 7 or more points, else against S_0 over
\* the number of points.
TrendAgainst(xs, back) ==
    LET n == Len(xs)
    IN  IF n >= 7
        THEN RDiv(RSub(ExpSmoothed(xs, n), ExpSmoothed(xs, n - back)), R(7))
        ELSE RDiv(RSub(ExpSmoothed(xs, n), xs[1]), R(n))

\* clamp(S_last + trend*i, 0, 100)
ProjectedScore(xs, back, i) ==
    Clamp(RAdd(ExpSmoothed(xs, Len(xs)), RMul(TrendAgainst(xs, back), R(i))), R(0), R(100))

\* C27 as claimed: for a history of 3 or more points the forecast smooths
\* with S_0 = x_0, S_t = 0.3*x_t + 0.7*S_(t-1), takes the per-step trend
\* (S_last - S_(last-7))/7, against the smoothed value seven positions
\* before the last, with 7 or more points (else (S_last - S_0)/len(S)), and
\* gives point i the risk_score clamp(S_last + trend*i, 0, 100).  The score
\* is compared as the code reports it, to one decimal; a history of exactly
\* 7 points has no value seven positions before the last and is left out.
C27_TrendAgainstSeventhBefore ==
    (ForecastReturned /\ Len(historical_data) >= 3 /\ Len(historical_data) # 7) =>
        \A i \in 1..Len(forecast.points) :
           forecast.points[i].risk_score \in RoundTenth(ProjectedScore(ScoresByDate, 7, i))

\* C27 as amended: the same, with the trend (S_last - S_(last-6))/7, against
\* the smoothed value six positions before the last (the seventh from the
\* end, S_0 for exactly 7 points), and the risk_score rounded to one
\* decimal.
C27_TrendAgainstSeventhFromEnd ==
    (ForecastReturned /\ Len(historical_data) >= 3) =>
        /\ Len(forecast.points) = days
        /\ \A i \in 1..Len(forecast.points) :
              forecast.points[i].risk_score \in RoundTenth(ProjectedScore(ScoresByDate, 6, i))

\* C27 witness: a forecast for 8 points whose first two smoothed values
\* differ, so that the two readings of the trend give different scores.
C27_Witness ==
    /\ ForecastReturned
    /\ Len(historical_data) = 8
    /\ days >= 1
    /\ ExpSmoothed(ScoresByDate, 1) # ExpSmoothed(ScoresByDate, 2)
    /\ forecast.points[1].risk_score \notin RoundTenth(ProjectedScore(ScoresByDate, 7, 1))

\* C28: every forecast point returned by calculate_forecast satisfies
\* confidence_low <= risk_score <= confidence_high, on the smoothing path
\* and on the flat path, for every history, also with scores outside 0-100.
C28_ScoreInsideBand ==
    ForecastReturned =>
        \A i \in 1..Len(forecast.points) :
           /\ RLe(forecast.points[i].confidence_low, forecast.points[i].risk_score)
           /\ RLe(forecast.points[i].risk_score, forecast.points[i].confidence_high)

====
